---- MODULE Spec2Model ----
(***************************************************************************)
(* Model of the MicroPython USB device stack (micropython/usbd):           *)
(*   - _USBDevice: interface registry, configuration descriptor build,     *)
(*     open/reset fan-out, per-endpoint transfer registry, control         *)
(*     transfer routing (device.py);                                       *)
(*   - USBInterface and the subclasses MouseInterface (hid.py) and         *)
(*     CDCDataInterface (cdc.py);                                          *)
(*   - Buffer, the producer/consumer byte buffer (utils.py).               *)
(* The bus driver (machine.USBD) is the environment: it invokes the        *)
(* callbacks and accepts or rejects the transfers it is handed.            *)
(***************************************************************************)
EXTENDS Integers, Sequences, FiniteSets, TLC

----------------------------------------------------------------------------
(* Bounds of the model *)

\* registered interfaces at any one time
MaxItfs == 2
\* largest number of built-in (static) interfaces of the bus driver
MaxStatic == 1
\* Buffer(length)
BufLen == 4
\* bytes the producer writes in all
MaxBytes == 6
\* largest capacity of the buffers of the generalised round trip
MaxCap == 3
\* length of the buffer the HID function is given for SET_REPORT
SetReportLen == 2

----------------------------------------------------------------------------
(* Program constants *)

EP_IN_FLAG == 128
STAGE_SETUP == 1
STAGE_DATA == 2
STAGE_ACK == 3
RESULT_SUCCESS == 0
RESULT_FAILED == 1
STD_DESC_CONFIG_LEN == 9
STD_DESC_CONFIG_TYPE == 2
STD_DESC_INTERFACE_LEN == 9
STD_DESC_INTERFACE_TYPE == 4
STD_DESC_ENDPOINT_LEN == 7
STD_DESC_ENDPOINT_TYPE == 5
OFFS_CONFIG_iConfiguration == 6
REQ_RECIPIENT_DEVICE == 0
REQ_RECIPIENT_INTERFACE == 1
REQ_RECIPIENT_ENDPOINT == 2
REQ_RECIPIENT_OTHER == 3
DESC_HID_TYPE == 33
BULK_EP_LEN == 64
CS_DESC_TYPE == 36
ITF_ASSOCIATION_DESC_TYPE == 11
INTERFACE_CLASS_CDC == 2
INTERFACE_SUBCLASS_CDC == 2
CDC_VERSION == 288
\* len(_MOUSE_REPORT_DESC)
MOUSE_REPORT_DESC_LEN == 50
\* _USBDevice.max_power_ma
max_power_ma == 50

\* Python's None, for callbacks, strings and endpoint attributes
None == "None"

----------------------------------------------------------------------------
(* The interface objects of the application.  Five objects exist; any of   *)
(* them may be registered with add_interface.                              *)
(*   1: USBInterface()            base class, no endpoints, no string      *)
(*   2: MouseInterface()          HID, one IN endpoint, interface string   *)
(*   3: CDCDataInterface()        one OUT and one IN bulk endpoint         *)
(*   4: CDCControlInterface()     one IN interrupt endpoint                *)
(*   5: HIDInterface(_MOUSE_REPORT_DESC, set_report_buf=bytearray(n),      *)
(*                   interface_str="HID")                                  *)
(*                                HID with a buffer for SET_REPORT, n =    *)
(*                                SetReportLen, and an interface string    *)

ItfIds == 1..5

ItfClass(i) ==
    CASE i = 1 -> "USBInterface" [] i = 2 -> "MouseInterface"
      [] i = 3 -> "CDCDataInterface" [] i = 4 -> "CDCControlInterface"
      [] OTHER -> "HIDInterface"

bInterfaceClass(i) ==
    CASE i = 1 -> 255 [] i = 2 -> 3 [] i = 3 -> 10 [] i = 4 -> INTERFACE_CLASS_CDC
      [] OTHER -> 3
bInterfaceSubClass(i) == IF i = 4 THEN INTERFACE_SUBCLASS_CDC ELSE 0
bInterfaceProtocol(i) == CASE i = 1 -> 255 [] i = 2 -> 2 [] OTHER -> 0
interface_str(i) == CASE i = 2 -> "MP Mouse!" [] i = 5 -> "HID" [] OTHER -> None

\* len(HIDInterface._set_report_buf), 0 for None
set_report_buf_len(i) == IF i = 5 THEN SetReportLen ELSE 0

\* completion callbacks that can be registered for a transfer
\*   None      submit_xfer(ep, data)            (HIDInterface.send_report)
\*   done_cb   a driver callback that only takes note of the completion
\*   _rd_cb    CDCDataInterface._rd_cb, re-arms the OUT endpoint
\*   _wr_cb    CDCDataInterface._wr_cb, re-arms the IN endpoint
Callbacks == {"done_cb", "_rd_cb", "_wr_cb"}

----------------------------------------------------------------------------
(* Sequence and byte helpers *)

Max(a, b) == IF a >= b THEN a ELSE b
Min(a, b) == IF a <= b THEN a ELSE b
Range(s) == {s[k] : k \in DOMAIN s}

\* little-endian 16-bit field of struct.pack ("H"); MicroPython truncates
Pack16(v) == <<v % 256, (v \div 256) % 256>>
Unpack16(s, off) == s[off + 1] + 256 * s[off + 2]

\* position (0-based) of the first occurrence of x in s, or -1: list.index
IndexOf(s, x) ==
    IF \E k \in DOMAIN s : s[k] = x
    THEN (CHOOSE k \in DOMAIN s : s[k] = x /\ \A j \in 1..(k - 1) : s[j] # x) - 1
    ELSE -1

\* list.remove(x): drops the first occurrence
RemoveFirst(s, x) ==
    LET k == IndexOf(s, x) + 1
    IN  SubSeq(s, 1, k - 1) \o SubSeq(s, k + 1, Len(s))

Zeros(k) == [j \in 1..k |-> 0]

----------------------------------------------------------------------------
(* State *)

VARIABLES
    \* _USBDevice
    itfs,            \* _itfs: list of registered interface objects
    eps,             \* _eps: endpoint address -> interface object
    ep_cbs,          \* _ep_cbs: endpoint address -> callback or None
    strs,            \* _strs: string table of the last completed build
    include_static,  \* include the built-in descriptor when enumerating
    config_str,      \* configuration string or None
    manufacturer_str, \* manufacturer string or None
    dev,             \* device_class, device_subclass, device_protocol, id_vendor,
                     \* id_product and bcd_device, each a number or None
    \* interface objects
    opened,          \* USBInterface._open of each interface object
    ctrl,            \* CDCControlInterface: _line_state and _line_coding
    itf_ep,          \* endpoint number the object took in the last build
                     \* (ep_out / ep_in & 0x7F / _int_ep & 0x7F), 0 for None
    \* bus driver (machine.USBD)
    static,          \* itf_max, ep_max, str_max of the built-in descriptor
    inflight,        \* per endpoint: callbacks of the transfers it holds
    desc,            \* configuration descriptor last returned to the host
    host,            \* the control transfer to the CDC control interface in
                     \* progress (the stage due, its request and wLength) and
                     \* what happened since the last bus reset
    \* observation of the last operation
    last,
    \* Buffer
    _b,              \* the bytearray
    _n,              \* bytes ready to read, from index 0
    _w,              \* start of the pending write, len(_b) if none
    prod,            \* producer: where it is, the start of its view, bytes written,
                     \* how many of them its last finish_write moved, whether
                     \* its last write took only a part of the bytes, whether
                     \* its pend_write repeated one, the exception it got
    cons,            \* consumer: where it is, the length of its view, bytes copied,
                     \* whether its last readinto filled only a part, whether
                     \* its pend_read repeated one, the exception it got
    committed,       \* all bytes passed to finish_write, in order
    consumed,        \* all bytes passed to finish_read, in order
    \* test_utils_buffer.py
    test             \* the test program: statements still to run, the line
                     \* last run, its views w and r, the exception raised

devVars == <<itfs, eps, ep_cbs, strs, include_static, config_str, manufacturer_str, dev,
             ctrl, host, opened, itf_ep,
             static, inflight, desc, last>>
bufVars == <<_b, _n, _w, prod, cons, committed, consumed>>
testVars == <<test>>

\* endpoint numbers a build can hand out, and the addresses made of them
EpNums == 1..(MaxStatic + MaxItfs)
EpAddrs == EpNums \cup {x + EP_IN_FLAG : x \in EpNums}

----------------------------------------------------------------------------
(* Descriptors *)

\* utils.endpoint_descriptor: "<BBBBHB"
endpoint_descriptor(bEndpointAddress, bmAttributes, wMaxPacketSize, bInterval) ==
    <<STD_DESC_ENDPOINT_LEN, STD_DESC_ENDPOINT_TYPE, bEndpointAddress % 256,
      bmAttributes % 256>> \o Pack16(wMaxPacketSize) \o <<bInterval % 256>>

\* HIDInterface.get_hid_descriptor with no extra descriptors: "<BBHBBBH"
get_hid_descriptor ==
    <<9, DESC_HID_TYPE>> \o Pack16(273) \o <<0, 1, 34>> \o Pack16(MOUSE_REPORT_DESC_LEN)

\* the built-in configuration descriptor of the bus driver: a header and,
\* per built-in interface, an interface descriptor and one IN endpoint
StaticItfDesc(k) ==
    <<STD_DESC_INTERFACE_LEN, STD_DESC_INTERFACE_TYPE, k, 0, 1, 8, 6, 80, 0>>
        \o endpoint_descriptor(k + 1 + EP_IN_FLAG, 2, BULK_EP_LEN, 0)

RECURSIVE StaticItfs(_, _)
StaticItfs(k, m) == IF k >= m THEN <<>> ELSE StaticItfDesc(k) \o StaticItfs(k + 1, m)

StaticDescCfg(st) ==
    <<STD_DESC_CONFIG_LEN, STD_DESC_CONFIG_TYPE>> \o Pack16(9 + 16 * st.itf_max)
        \o <<st.itf_max, 1, st.iConfiguration, 128, 50>> \o StaticItfs(0, st.itf_max)

\* the endpoint numbers the built-in interfaces use
StaticEpNums(st) == {k + 1 : k \in 0..(st.itf_max - 1)}

\* the built-in values of a bus driver with m built-in interfaces
StaticOf(m) ==
    [itf_max |-> m, ep_max |-> IF m = 0 THEN 0 ELSE m + 1, str_max |-> m + 1,
     iConfiguration |-> m]

\* USBInterface.get_endpoint_descriptors and its overrides: the descriptor
\* bytes, the strings and the endpoint addresses of interface object i
get_endpoint_descriptors(i, ep_addr, str_idx) ==
    CASE ItfClass(i) \in {"MouseInterface", "HIDInterface"} ->
           [desc |-> get_hid_descriptor
                       \o endpoint_descriptor(ep_addr + EP_IN_FLAG, 3, 8, 8),
            strs |-> <<>>, addrs |-> <<ep_addr + EP_IN_FLAG>>]
      [] ItfClass(i) = "CDCDataInterface" ->
           [desc |-> endpoint_descriptor(ep_addr, 2, BULK_EP_LEN, 0)
                       \o endpoint_descriptor(ep_addr + EP_IN_FLAG, 2, BULK_EP_LEN, 0),
            strs |-> <<>>, addrs |-> <<ep_addr, ep_addr + EP_IN_FLAG>>]
      [] ItfClass(i) = "CDCControlInterface" ->
           [desc |-> endpoint_descriptor(ep_addr + EP_IN_FLAG, 3, 8, 16),
            strs |-> <<>>, addrs |-> <<ep_addr + EP_IN_FLAG>>]
      [] OTHER -> [desc |-> <<>>, strs |-> <<>>, addrs |-> <<>>]

\* (variant for comparison: the interface number field is left 0)
ItfNumberZero(i, num_eps, itf_idx, str_idx) ==
    [desc |-> <<STD_DESC_INTERFACE_LEN, STD_DESC_INTERFACE_TYPE, 0, 0,
                num_eps % 256, bInterfaceClass(i), bInterfaceSubClass(i),
                bInterfaceProtocol(i),
                IF interface_str(i) # None THEN str_idx % 256 ELSE 0>>,
     strs |-> IF interface_str(i) # None THEN <<interface_str(i)>> ELSE <<>>]

\* USBInterface.get_itf_descriptor: the 9-byte interface descriptor
USBInterface_get_itf_descriptor(i, num_eps, itf_idx, str_idx) ==
    [desc |-> <<STD_DESC_INTERFACE_LEN, STD_DESC_INTERFACE_TYPE, itf_idx % 256, 0,
                num_eps % 256, bInterfaceClass(i), bInterfaceSubClass(i),
                bInterfaceProtocol(i),
                IF interface_str(i) # None THEN str_idx % 256 ELSE 0>>,
     strs |-> IF interface_str(i) # None THEN <<interface_str(i)>> ELSE <<>>]

\* CDCControlInterface.get_itf_descriptor: an interface association
\* descriptor, the interface descriptor, then the header, call management,
\* abstract control and union functional descriptors
CDCControl_get_itf_descriptor(i, num_eps, itf_idx, str_idx) ==
    LET base == USBInterface_get_itf_descriptor(i, num_eps, itf_idx, str_idx)
    IN  [desc |-> <<8, ITF_ASSOCIATION_DESC_TYPE, itf_idx % 256, 2, INTERFACE_CLASS_CDC,
                    INTERFACE_SUBCLASS_CDC, 0, 0>>
                  \o base.desc
                  \o <<5, CS_DESC_TYPE, 0>> \o Pack16(CDC_VERSION)
                  \o <<5, CS_DESC_TYPE, 1, 0, 1>>
                  \o <<4, CS_DESC_TYPE, 2, 6>>
                  \o <<5, CS_DESC_TYPE, 6, itf_idx % 256, (itf_idx + 1) % 256>>,
         strs |-> base.strs]

\* get_itf_descriptor of interface object i
get_itf_descriptor(i, num_eps, itf_idx, str_idx) ==
    IF ItfClass(i) = "CDCControlInterface"
    THEN CDCControl_get_itf_descriptor(i, num_eps, itf_idx, str_idx)
    ELSE USBInterface_get_itf_descriptor(i, num_eps, itf_idx, str_idx)

\* None as the value of a numeric device property
Unset == -1

\* the device properties that override fields of the device descriptor
DeviceProperties ==
    {"device_class", "device_subclass", "device_protocol", "id_vendor", "id_product",
     "bcd_device"}

\* machine.USBD.static.desc_device unpacked with "<BBHBBBBHHHBBBB": bLength,
\* bDescriptorType, bcdUSB, bDeviceClass, bDeviceSubClass, bDeviceProtocol,
\* bMaxPacketSize0, idVendor, idProduct, bcdDevice, iManufacturer, iProduct,
\* iSerialNumber, bNumConfigurations
StaticDescDevice == <<18, 1, 512, 239, 2, 1, 64, 61525, 38914, 256, 1, 2, 3, 1>>

\* struct.pack("<BBHBBBBHHHBBBB", ...)
PackDevice(f) ==
    <<f[1] % 256, f[2] % 256>> \o Pack16(f[3])
        \o <<f[4] % 256, f[5] % 256, f[6] % 256, f[7] % 256>>
        \o Pack16(f[8]) \o Pack16(f[9]) \o Pack16(f[10])
        \o <<f[11] % 256, f[12] % 256, f[13] % 256, f[14] % 256>>

\* _USBDevice._descriptor_device_cb: maybe_set keeps the static field where
\* the property is None; maybe_set_str calls self._get_device_str_index,
\* which _USBDevice does not define, when the string is set (ms; product and
\* serial unset)
_descriptor_device_cb(d, ms) ==
    LET f == StaticDescDevice
        maybe_set(value, idx) == IF value # Unset THEN value ELSE f[idx + 1]
    IN  IF ms # None THEN [err |-> "AttributeError", desc |-> <<>>]
        ELSE [err |-> "",
              desc |-> PackDevice(<<f[1], f[2], f[3],
                                    maybe_set(d["device_class"], 3),
                                    maybe_set(d["device_subclass"], 4),
                                    maybe_set(d["device_protocol"], 5),
                                    f[7],
                                    maybe_set(d["id_vendor"], 7),
                                    maybe_set(d["id_product"], 8),
                                    maybe_set(d["bcd_device"], 9),
                                    f[11], f[12], f[13], f[14]>>)]

\* _USBDevice.__get_device_strs (product and serial unset): the manufacturer
\* string, then the configuration string cs, each if set
_get_device_strs(cs) ==
    (IF manufacturer_str # None THEN <<manufacturer_str>> ELSE <<>>)
        \o (IF cs # None THEN <<cs>> ELSE <<>>)

\* (variant for comparison: the endpoint counter is left where it was)
SameEpAddr(addrs, ep_addr) == ep_addr

\* the endpoint counter after the addresses of one interface (line 233)
RECURSIVE NextEpAddr(_, _)
NextEpAddr(addrs, ep_addr) ==
    IF addrs = <<>> THEN ep_addr
    ELSE NextEpAddr(Tail(addrs), Max((Head(addrs) % EP_IN_FLAG) + 1, ep_addr))

\* (variant for comparison: the endpoint map is keyed by endpoint number,
\* the direction bit dropped)
MapByEndpointNumber(acc, i) ==
    LET epd == get_endpoint_descriptors(i, acc.ep_addr, acc.str_idx)
        str1 == acc.str_idx + Len(epd.strs)
        itd == get_itf_descriptor(i, Len(epd.addrs), acc.itf_idx, str1)
        as == {x % EP_IN_FLAG : x \in Range(epd.addrs)}
    IN  [desc |-> acc.desc \o itd.desc \o epd.desc,
         strs |-> acc.strs \o epd.strs \o itd.strs,
         itf_idx |-> acc.itf_idx + 1,
         str_idx |-> str1 + Len(itd.strs),
         ep_addr |-> NextEpAddr(epd.addrs, acc.ep_addr),
         assigned |-> acc.assigned \o [k \in DOMAIN epd.addrs |-> <<i, epd.addrs[k]>>],
         counter |-> Append(acc.counter, NextEpAddr(epd.addrs, acc.ep_addr)),
         eps |-> [a \in (DOMAIN acc.eps) \cup as |-> IF a \in as THEN i ELSE acc.eps[a]],
         itf_ep |-> IF as = {} THEN acc.itf_ep
                    ELSE [acc.itf_ep EXCEPT ![i] = acc.ep_addr]]

\* one iteration of the loop of _descriptor_config_cb (lines 215-233)
ConfigStep(acc, i) ==
    LET epd == get_endpoint_descriptors(i, acc.ep_addr, acc.str_idx)
        str1 == acc.str_idx + Len(epd.strs)
        itd == get_itf_descriptor(i, Len(epd.addrs), acc.itf_idx, str1)
        as == Range(epd.addrs)
    IN  [desc |-> acc.desc \o itd.desc \o epd.desc,
         strs |-> acc.strs \o epd.strs \o itd.strs,
         itf_idx |-> acc.itf_idx + 1,
         str_idx |-> str1 + Len(itd.strs),
         ep_addr |-> NextEpAddr(epd.addrs, acc.ep_addr),
         assigned |-> acc.assigned \o [k \in DOMAIN epd.addrs |-> <<i, epd.addrs[k]>>],
         counter |-> Append(acc.counter, NextEpAddr(epd.addrs, acc.ep_addr)),
         eps |-> [a \in (DOMAIN acc.eps) \cup as |-> IF a \in as THEN i ELSE acc.eps[a]],
         itf_ep |-> IF as = {} THEN acc.itf_ep
                    ELSE [acc.itf_ep EXCEPT ![i] = acc.ep_addr]]

RECURSIVE ConfigLoop(_, _)
ConfigLoop(acc, rest) ==
    IF rest = <<>> THEN acc ELSE ConfigLoop(ConfigStep(acc, Head(rest)), Tail(rest))

\* _USBDevice.__get_str_index against the string table in force: the index,
\* or -1 where list.index raises ValueError
_get_str_index(s, st, table) ==
    IF s # None
    THEN (IF IndexOf(table, s) < 0 THEN -1 ELSE st.str_max + IndexOf(table, s))
    ELSE 0

\* (variant for comparison: the header of the assembled bytes left unpatched)
UnpatchedHeader(d, nitfs, inc, st, iConfiguration) == SubSeq(d, 1, STD_DESC_CONFIG_LEN)

\* the header written by _USBDevice.__update_configuration_descriptor
ConfigHeader(d, nitfs, inc, st, iConfiguration) ==
    LET bmAttributes == 128 + (IF max_power_ma # 0 THEN 0 ELSE 64)
        iConf == IF inc /\ iConfiguration = 0
                 THEN d[OFFS_CONFIG_iConfiguration + 1] ELSE iConfiguration
        bNumInterfaces == (IF inc THEN st.itf_max ELSE 0) + nitfs
    IN  <<STD_DESC_CONFIG_LEN, STD_DESC_CONFIG_TYPE>> \o Pack16(Len(d))
          \o <<bNumInterfaces % 256, 1, iConf % 256, bmAttributes, max_power_ma % 256>>

_update_configuration_descriptor(d, nitfs, inc, st, iConfiguration) ==
    ConfigHeader(d, nitfs, inc, st, iConfiguration)
        \o SubSeq(d, STD_DESC_CONFIG_LEN + 1, Len(d))

\* (variant for comparison: the string table is extended from the table of
\* the previous build instead of being rebuilt from the device strings)
ExtendOldStrs(fs, inc, cs, st, oldstrs, oldep) ==
    LET acc == ConfigLoop([desc |-> IF inc THEN StaticDescCfg(st)
                                    ELSE Zeros(STD_DESC_CONFIG_LEN),
                           strs |-> oldstrs, itf_idx |-> st.itf_max,
                           str_idx |-> st.str_max + Len(oldstrs),
                           ep_addr |-> Max(st.ep_max, 1), assigned |-> <<>>,
                           counter |-> <<Max(st.ep_max, 1)>>,
                           eps |-> <<>>, itf_ep |-> oldep], fs)
    IN  [eps |-> acc.eps, itf_ep |-> acc.itf_ep, strs |-> acc.strs, err |-> "",
         assigned |-> acc.assigned, counter |-> acc.counter,
         desc |-> _update_configuration_descriptor(acc.desc, Len(fs), inc, st, 0)]

\* the whole of _descriptor_config_cb as a value: the rebuilt maps, the
\* descriptor and the new string table; err is "ValueError" when the
\* configuration string is not in the string table still in force
_descriptor_config_cb(fs, inc, cs, st, oldstrs, oldep) ==
    LET strs0 == _get_device_strs(cs)
        desc0 == IF inc THEN StaticDescCfg(st) ELSE Zeros(STD_DESC_CONFIG_LEN)
        acc == ConfigLoop([desc |-> desc0, strs |-> strs0, itf_idx |-> st.itf_max,
                           str_idx |-> st.str_max + Len(strs0),
                           ep_addr |-> Max(st.ep_max, 1), assigned |-> <<>>,
                           counter |-> <<Max(st.ep_max, 1)>>,
                           eps |-> <<>>, itf_ep |-> oldep], fs)
        iConf == _get_str_index(cs, st, oldstrs)
    IN  [eps |-> acc.eps, itf_ep |-> acc.itf_ep, strs |-> acc.strs,
         assigned |-> acc.assigned, counter |-> acc.counter,
         err |-> IF iConf < 0 THEN "ValueError" ELSE "",
         desc |-> _update_configuration_descriptor(acc.desc, Len(fs), inc, st, iConf)]

\* (variant for comparison: the index is looked up as it came, the built-in
\* string indexes not taken off)
IndexNotRebased(index, st, table, asserts) ==
    [err |-> "",
     ret |-> IF index >= 0 /\ index < Len(table) THEN table[index + 1] ELSE None]

\* (variant for comparison: an index past the end gets the last entry)
ClampToLast(index, st, table, asserts) ==
    LET k == index - st.str_max
    IN  IF k < 0 /\ asserts THEN [err |-> "AssertionError", ret |-> None]
        ELSE [err |-> "",
              ret |-> IF table = <<>> THEN None
                      ELSE IF k >= 0 /\ k < Len(table) THEN table[k + 1]
                      ELSE table[Len(table)]]

\* _USBDevice._descriptor_string_cb against the string table in force: the
\* error raised and the value returned.  With the assertion compiled out a
\* negative list index counts from the end of the table
_descriptor_string_cb(index, st, table, asserts) ==
    LET k == index - st.str_max
    IN  IF k < 0 /\ asserts THEN [err |-> "AssertionError", ret |-> None]
        ELSE IF k >= 0
        THEN [err |-> "", ret |-> IF k < Len(table) THEN table[k + 1] ELSE None]
        ELSE [err |-> "",
              ret |-> IF -k <= Len(table) THEN table[Len(table) + k + 1] ELSE None]

----------------------------------------------------------------------------
(* Transfer registry and interface callbacks.  A run S is the part of the  *)
(* state that the code of one operation reads and writes while it runs     *)
(* (callbacks included), with what an observer sees of it:                 *)
(*   cbs, fl, opened   _ep_cbs, the bus driver's queues, the _open flags   *)
(*   err               the exception raised, "" if none                    *)
(*   handed            transfers handed to machine.USBD.submit_xfer        *)
(*   busyhand          one was handed while the endpoint held a transfer   *)
(*   invoked           completion callbacks invoked, with their arguments  *)
(*   seen              per reset hook run, the endpoints it found pending  *)
(* An env X holds the inputs of the operation: what the bus driver and the *)
(* CDC buffers answer (accept, room, data) and the CDC endpoint number.    *)

RunOf(cbs, fl, op) ==
    [cbs |-> cbs, fl |-> fl, opened |-> op, err |-> "", handed |-> 0,
     busyhand |-> FALSE, invoked |-> <<>>, seen |-> <<>>]

Raise(S, e) == [S EXCEPT !.err = e]

\* the endpoint holds a transfer that is neither completed nor cancelled
Busy(q) == \E k \in DOMAIN q : q[k] # "cancelled"

RECURSIVE _xfer_cb(_, _, _, _, _)

\* the bus driver reports the completion of the oldest transfer it holds on
\* endpoint e: it drops it and invokes _xfer_cb.  Callbacks are not
\* re-entered: what the callback submits is not completed before it returns.
DriverComplete(S, e, X) ==
    _xfer_cb([S EXCEPT !.fl[e] = Tail(@)], e, X.result, X.n, [X EXCEPT !.sync = FALSE])

\* machine.USBD.submit_xfer as the core sees it: the transfer is rejected,
\* or queued; when X.sync, its completion is reported before the call returns.
\* The bus driver holds one transfer per endpoint and refuses another while
\* that one is neither completed nor cancelled.
DriverSubmit(S, e, done_cb, X) ==
    LET S1 == [S EXCEPT !.handed = @ + 1, !.busyhand = @ \/ Busy(S.fl[e])]
    IN  IF X.accept /\ ~Busy(S.fl[e])
        THEN [ok |-> TRUE,
              S |-> IF X.sync
                    THEN DriverComplete([S1 EXCEPT !.fl[e] = Append(@, done_cb)], e, X)
                    ELSE [S1 EXCEPT !.fl[e] = Append(@, done_cb)]]
        ELSE [ok |-> FALSE, S |-> S1]

\* (variant for comparison: the mark is kept when the bus driver refuses)
SubmitNoRollback(S, e, done_cb, X) ==
    IF e \notin DOMAIN S.cbs THEN Raise(S, "KeyError")
    ELSE IF S.cbs[e] # None THEN Raise(S, "xfer_pending")
    ELSE LET r == DriverSubmit([S EXCEPT !.cbs[e] = done_cb], e, done_cb, X)
         IN  IF r.ok THEN r.S ELSE Raise(r.S, "submit failed")

\* _USBDevice._submit_xfer
_submit_xfer(S, e, done_cb, X) ==
    IF e \notin DOMAIN S.cbs THEN Raise(S, "KeyError")
    ELSE IF S.cbs[e] # None THEN Raise(S, "xfer_pending")
    ELSE LET r == DriverSubmit([S EXCEPT !.cbs[e] = done_cb], e, done_cb, X)
         IN  IF r.ok THEN r.S
             ELSE Raise([r.S EXCEPT !.cbs[e] = None], "submit failed")

\* USBInterface.submit_xfer
submit_xfer(S, i, e, done_cb, X) ==
    IF ~S.opened[i] THEN Raise(S, "Not open") ELSE _submit_xfer(S, e, done_cb, X)

\* USBInterface.xfer_pending: the run and the value returned
xfer_pending(S, e) ==
    IF e \notin DOMAIN S.cbs THEN [S |-> Raise(S, "KeyError"), ret |-> FALSE]
    ELSE [S |-> S, ret |-> S.cbs[e] # None]

\* USBInterface.set_ep_stall and get_ep_stall, em being _eps; the stall
\* state itself is kept by the bus driver, which answers get_ep_stall
set_ep_stall(S, i, e, em) ==
    IF ~S.opened[i] \/ e \notin DOMAIN em THEN Raise(S, "RuntimeError")
    ELSE [S EXCEPT !.handed = @ + 1]

get_ep_stall(S, i, e, em, answer) ==
    IF ~S.opened[i] \/ e \notin DOMAIN em
    THEN [S |-> Raise(S, "RuntimeError"), ret |-> FALSE]
    ELSE [S |-> [S EXCEPT !.handed = @ + 1], ret |-> answer]

\* CDCDataInterface._rd_xfer, ep_out being X.epn
_rd_xfer(S, X) ==
    IF S.err # "" \/ ~S.opened[3] \/ ~X.room THEN S
    ELSE IF X.epn \notin DOMAIN S.cbs THEN Raise(S, "KeyError")
    ELSE IF S.cbs[X.epn] # None THEN S
    ELSE submit_xfer(S, 3, X.epn, "_rd_cb", X)

\* CDCDataInterface._wr_xfer, ep_in being X.epn | EP_IN_FLAG
_wr_xfer(S, X) ==
    LET ep_in == IF X.epn = 0 THEN 0 ELSE X.epn + EP_IN_FLAG
    IN  IF S.err # "" \/ ~S.opened[3] \/ ~X.data THEN S
        ELSE IF ep_in \notin DOMAIN S.cbs THEN Raise(S, "KeyError")
        ELSE IF S.cbs[ep_in] # None THEN S
        ELSE submit_xfer(S, 3, ep_in, "_wr_cb", X)

\* (variant for comparison: the mark is left in place while the callback runs)
KeepMark(S, e) == S

\* the mark of endpoint e is cleared (line 343)
ClearMark(S, e) == [S EXCEPT !.cbs[e] = None]

\* the body of a completion callback (_rd_cb, _wr_cb or a plain one)
CallDoneCb(S, cb, X) ==
    CASE cb = "_rd_cb" -> _rd_xfer(S, X)
      [] cb = "_wr_cb" -> _wr_xfer(S, X)
      [] OTHER -> S

\* _USBDevice._xfer_cb
_xfer_cb(S, e, result, xferred_bytes, X) ==
    LET cb == IF e \in DOMAIN S.cbs THEN S.cbs[e] ELSE None
    IN  IF cb = None THEN S
        ELSE CallDoneCb([ClearMark(S, e) EXCEPT
                           !.invoked = Append(@, <<cb, e, result, xferred_bytes>>)],
                        cb, X)

\* USBInterface.handle_open and CDCDataInterface.handle_open
handle_open(S, i, X) ==
    LET S1 == [S EXCEPT !.opened[i] = TRUE]
    IN  IF ItfClass(i) = "CDCDataInterface" THEN _wr_xfer(_rd_xfer(S1, X), X) ELSE S1

\* USBInterface.handle_reset
handle_reset(S, i) ==
    [S EXCEPT !.opened[i] = FALSE,
              !.seen = Append(@, {a \in DOMAIN S.cbs : S.cbs[a] # None})]

\* _USBDevice._open_cb: the walk over the claimed descriptors
RECURSIVE _open_cb(_, _, _, _, _)
_open_cb(S, view, fs, st, X) ==
    IF S.err # "" \/ view = <<>> THEN S
    ELSE IF Len(view) < 3 THEN Raise(S, "ValueError")
    ELSE LET dl == view[1]
             dt == view[2]
             di == IF view[3] >= st.itf_max THEN view[3] - st.itf_max ELSE view[3]
             S1 == IF dt # STD_DESC_INTERFACE_TYPE THEN S
                   ELSE IF di >= Len(fs) THEN Raise(S, "IndexError")
                   ELSE handle_open(S, fs[di + 1], X)
         IN  IF S1.err = "" /\ dl = 0 THEN Raise(S1, "AssertionError")
             ELSE _open_cb(S1, SubSeq(view, dl + 1, Len(view)), fs, st, X)

\* (variant for comparison: _reset_cb without its first loop)
KeepMarks(cbs) == cbs

\* the marks after the first loop of _reset_cb (lines 315-316)
ResetMarks(cbs) == [a \in DOMAIN cbs |-> None]

RECURSIVE ResetItfs(_, _)
ResetItfs(S, fs) == IF fs = <<>> THEN S ELSE ResetItfs(handle_reset(S, Head(fs)), Tail(fs))

\* _USBDevice._reset_cb
_reset_cb(S, fs) == ResetItfs([S EXCEPT !.cbs = ResetMarks(S.cbs)], fs)

----------------------------------------------------------------------------
(* Control transfer routing *)

\* _USBDevice._get_interface: the interface object, 0 for None, -1 where the
\* assertion fails.  With assertions compiled out (asserts = FALSE) a
\* negative index is Python's index from the end of the list.
_get_interface(index, fs, st, asserts) ==
    LET k == index - st.itf_max
    IN  IF k < 0 /\ asserts THEN -1
        ELSE IF k >= 0 THEN (IF k < Len(fs) THEN fs[k + 1] ELSE 0)
        ELSE (IF -k <= Len(fs) THEN fs[Len(fs) + k + 1] ELSE 0)

\* what the handler of interface object i returns: "False" (STALL), "True"
\* (continue) or "buf" (a buffer for the data stage), for the objects 1 to 3 and 5.
\* Of these only HIDInterface overrides a handler
\* (handle_interface_control_xfer); hbuf says whether the request is one it
\* answers with a buffer at the SETUP stage.
HandlerResult(i, handler, stage, hbuf) ==
    IF ItfClass(i) \in {"MouseInterface", "HIDInterface"} /\ handler = "interface"
    THEN (IF stage = STAGE_SETUP THEN (IF hbuf THEN "buf" ELSE "False") ELSE "True")
    ELSE "False"

\* the interface object a request is routed to, as _get_interface gives it
\* (lines 362-374); the endpoint map for the endpoint recipient
RouteOf(recipient, wIndex, fs, em, st, asserts) ==
    CASE recipient = REQ_RECIPIENT_DEVICE -> _get_interface(wIndex % 65536, fs, st, asserts)
      [] recipient = REQ_RECIPIENT_INTERFACE -> _get_interface(wIndex % 65536, fs, st, asserts)
      [] recipient = REQ_RECIPIENT_ENDPOINT ->
           (IF (wIndex % 65536) \in DOMAIN em THEN em[wIndex % 65536] ELSE 0)
      [] OTHER -> 0

HandlerOf(recipient) ==
    CASE recipient = REQ_RECIPIENT_DEVICE -> "device"
      [] recipient = REQ_RECIPIENT_INTERFACE -> "interface"
      [] OTHER -> "endpoint"

\* the outcome mapping with the buffer case left out: a buffer is taken for
\* True and nothing reaches machine.USBD.control_xfer
BufferIsTrue(stage, recipient, wIndex, fs, em, st, asserts, hbuf, drv) ==
    LET itf == RouteOf(recipient, wIndex, fs, em, st, asserts)
        result == HandlerResult(itf, HandlerOf(recipient), stage, hbuf)
    IN  IF itf = -1
        THEN [err |-> "AssertionError", handlers |-> <<>>, result |-> None,
              ret |-> FALSE, data |-> FALSE]
        ELSE IF itf = 0
        THEN [err |-> "", handlers |-> <<>>, result |-> None, ret |-> FALSE,
              data |-> FALSE]
        ELSE [err |-> "", handlers |-> <<<<itf, HandlerOf(recipient), stage>>>>,
              result |-> result, ret |-> (result # "False"), data |-> FALSE]

\* _USBDevice._control_xfer_cb: the error raised, the handlers invoked, what
\* the handler returned (result), the value returned to the bus driver (ret)
\* and whether a buffer was handed to machine.USBD.control_xfer (data),
\* whose answer drv is then returned
_control_xfer_cb(stage, recipient, wIndex, fs, em, st, asserts, hbuf, drv) ==
    LET itf == RouteOf(recipient, wIndex, fs, em, st, asserts)
        result == HandlerResult(itf, HandlerOf(recipient), stage, hbuf)
    IN  IF itf = -1
        THEN [err |-> "AssertionError", handlers |-> <<>>, result |-> None,
              ret |-> FALSE, data |-> FALSE]
        ELSE IF itf = 0
        THEN [err |-> "", handlers |-> <<>>, result |-> None, ret |-> FALSE,
              data |-> FALSE]
        ELSE [err |-> "", handlers |-> <<<<itf, HandlerOf(recipient), stage>>>>,
              result |-> result,
              ret |-> IF result = "buf" THEN drv ELSE (result = "True"),
              data |-> (result = "buf")]

\* the requests HIDInterface.handle_interface_control_xfer tells apart, by
\* request type, bRequest and the descriptor type in wValue
HidRequests ==
    {"GET_DESCRIPTOR_HID", "GET_DESCRIPTOR_REPORT", "GET_DESCRIPTOR_other",
     "GET_REPORT", "GET_IDLE", "GET_PROTOCOL", "SET_IDLE", "SET_PROTOCOL",
     "SET_REPORT", "other"}

\* HIDInterface.handle_interface_control_xfer: the result ("True", "False" or
\* "buf"), the length of a buffer result (len) and the length of the payload
\* the request is about (expect, -1 where it has none)
HID_handle_interface_control_xfer(i, stage, req, wLength) ==
    LET L == set_report_buf_len(i)
        buf(n) == [result |-> "buf", len |-> n, expect |-> n]
        no == [result |-> "False", len |-> 0, expect |-> -1]
    IN  IF stage = STAGE_SETUP
        THEN CASE req = "GET_DESCRIPTOR_HID" -> buf(Len(get_hid_descriptor))
               [] req = "GET_DESCRIPTOR_REPORT" -> buf(MOUSE_REPORT_DESC_LEN)
               [] req \in {"GET_IDLE", "GET_PROTOCOL"} -> buf(1)
               [] req \in {"SET_IDLE", "SET_PROTOCOL"} -> buf(0)
               [] req = "SET_REPORT" ->
                    (IF L = 0 THEN no
                     ELSE IF wLength >= L THEN [result |-> "buf", len |-> L, expect |-> L]
                     ELSE [result |-> "buf", len |-> wLength, expect |-> L])
               [] OTHER -> no
        ELSE [result |-> "True", len |-> 0, expect |-> -1]

\* _USBDevice._control_xfer_cb for an interface request to a HID function:
\* the handler's result, the value returned to the bus driver and the length
\* of the buffer handed to machine.USBD.control_xfer (-1 if none)
_control_xfer_cb_hid(stage, req, wIndex, wLength, fs, st, drv) ==
    LET itf == _get_interface(wIndex % 65536, fs, st, TRUE)
        h == HID_handle_interface_control_xfer(itf, stage, req, wLength)
    IN  [itf |-> itf, result |-> h.result, expect |-> h.expect,
         ret |-> IF h.result = "buf" THEN drv ELSE (h.result = "True"),
         data |-> IF h.result = "buf" THEN h.len ELSE -1]

\* CDCControlInterface.__init__ (lines 215-217)
CDCControlInit == [_line_state |-> 0, _line_coding |-> <<0, 194, 1, 0, 0, 0, 8>>]

LINE_STATE_DTR == 1
LINE_STATE_RTS == 2

\* CDC.dtr
dtr(C) == (C._line_state \div LINE_STATE_DTR) % 2 = 1

\* the requests CDCControlInterface.handle_interface_control_xfer tells apart
\* by request type and bRequest
CdcRequests ==
    {"SET_LINE_CODING", "GET_LINE_CODING", "SET_CONTROL_LINE_STATE", "SEND_BREAK",
     "other"}

\* (variant for comparison: the handler takes a request of any length)
AnyLength(C, stage, req, wValue, wLength) ==
    IF stage = STAGE_SETUP
    THEN CASE req \in {"SET_LINE_CODING", "GET_LINE_CODING"} ->
                [result |-> "buf", C |-> C, cbs |-> <<>>]
           [] req = "SET_CONTROL_LINE_STATE" ->
                [result |-> "buf", C |-> [C EXCEPT !._line_state = wValue],
                 cbs |-> <<<<"line_state_cb", wValue>>>>]
           [] req = "SEND_BREAK" ->
                [result |-> "buf", C |-> C, cbs |-> <<<<"break_cb", wValue>>>>]
           [] OTHER -> [result |-> "True", C |-> C, cbs |-> <<>>]
    ELSE IF stage = STAGE_DATA /\ req = "SET_LINE_CODING"
    THEN [result |-> "True", C |-> C, cbs |-> <<<<"line_coding_cb", C._line_coding>>>>]
    ELSE [result |-> "True", C |-> C, cbs |-> <<>>]

\* CDCControlInterface.handle_interface_control_xfer with the three
\* callbacks set: the result ("True", "False" or "buf"), the object
\* afterwards and the callbacks invoked
CDC_handle_interface_control_xfer(C, stage, req, wValue, wLength) ==
    IF stage = STAGE_SETUP
    THEN CASE req = "SET_LINE_CODING" ->
                [result |-> IF wLength = Len(C._line_coding) THEN "buf" ELSE "False",
                 C |-> C, cbs |-> <<>>]
           [] req = "GET_LINE_CODING" -> [result |-> "buf", C |-> C, cbs |-> <<>>]
           [] req = "SET_CONTROL_LINE_STATE" ->
                (IF wLength = 0
                 THEN [result |-> "buf", C |-> [C EXCEPT !._line_state = wValue],
                       cbs |-> <<<<"line_state_cb", wValue>>>>]
                 ELSE [result |-> "False", C |-> C, cbs |-> <<>>])
           [] req = "SEND_BREAK" ->
                [result |-> "buf", C |-> C, cbs |-> <<<<"break_cb", wValue>>>>]
           [] OTHER -> [result |-> "True", C |-> C, cbs |-> <<>>]
    ELSE IF stage = STAGE_DATA /\ req = "SET_LINE_CODING"
    THEN [result |-> "True", C |-> C, cbs |-> <<<<"line_coding_cb", C._line_coding>>>>]
    ELSE [result |-> "True", C |-> C, cbs |-> <<>>]

\* _USBDevice._control_xfer_cb for an interface request to the CDC control
\* interface: the handler's result, the value returned to the bus driver,
\* the object afterwards and the callbacks invoked
_control_xfer_cb_cdc(C, stage, req, wIndex, wValue, wLength, fs, st, drv) ==
    LET itf == _get_interface(wIndex % 65536, fs, st, TRUE)
        h == CDC_handle_interface_control_xfer(C, stage, req, wValue, wLength)
    IN  IF itf # 4
        THEN [result |-> None, ret |-> FALSE, C |-> C, cbs |-> <<>>]
        ELSE [result |-> h.result, C |-> h.C, cbs |-> h.cbs,
              ret |-> IF h.result = "buf" THEN drv ELSE (h.result = "True")]

----------------------------------------------------------------------------
(* Buffer (utils.py).  A buffer B is the record of _b, _n and _w.  The     *)
(* producer and the consumer run in different contexts: each call is       *)
(* atomic (interrupts are disabled in it, or it is a single read of _n),   *)
(* and the other party may run between any two calls of one party.         *)

\* Buffer.__init__
BufferInit(length) == [b |-> Zeros(length), n |-> 0, w |-> length]

\* Buffer.writable, Buffer.readable
writable(B) == Len(B.b) - B.n
readable(B) == B.n

\* (variant for comparison: pend_write that gives the window up when one
\* is pending already)
PendBehind(B) == [B EXCEPT !.w = IF B.w < Len(B.b) THEN Len(B.b) ELSE B.n]

\* (variant for comparison: pend_write that opens no window)
NoWindow(B) == B

\* Buffer.pend_write: the view starts at the returned B.w
pend_write(B) == [B EXCEPT !.w = B.n]

\* (variant for comparison: finish_write that leaves the bytes where they are)
InPlace(B, nbytes) == B.b

\* the relocation of finish_write (line 157): _b[_n:_n+nbytes] = _b[_w:_w+nbytes]
Relocate(B, nbytes) ==
    [j \in DOMAIN B.b |->
        IF j > B.n /\ j <= B.n + nbytes THEN B.b[B.w + (j - B.n)] ELSE B.b[j]]

\* (variant for comparison: finish_write without the relocation branch)
FinishNoMove(B, nbytes) == [b |-> B.b, n |-> B.n + nbytes, w |-> Len(B.b)]

\* the assert of finish_write (line 153) and of finish_read (line 185)
finish_write_ok(B, nbytes) == nbytes <= Len(B.b) - B.w

\* (variant for comparison: finish_read without its assert)
AnyCount(B, nbytes) == TRUE

finish_read_ok(B, nbytes) == nbytes <= B.n

\* Buffer.finish_write
finish_write(B, nbytes) ==
    IF B.n < B.w
    THEN [b |-> Relocate(B, nbytes), n |-> B.n + nbytes, w |-> Len(B.b)]
    ELSE [b |-> B.b, n |-> B.n + nbytes, w |-> Len(B.b)]

\* Buffer.pend_read: the length of the view
pend_read(B) == B.n

\* (variant for comparison: finish_read without its loop)
NoShuffle(b, i, n, nbytes) == b

\* the loop of finish_read (lines 188-192), i being the loop counter
RECURSIVE Shuffle(_, _, _, _)
Shuffle(b, i, n, nbytes) ==
    IF i < n THEN Shuffle([b EXCEPT ![i + 1] = b[i + 1 + nbytes]], i + 1, n, nbytes)
    ELSE b

\* (variant for comparison: finish_read that consumes nothing)
ReadNothing(B, nbytes) == B

\* Buffer.finish_read
finish_read(B, nbytes) ==
    [b |-> Shuffle(B.b, 0, B.n - nbytes, nbytes), n |-> B.n - nbytes, w |-> B.w]

\* pw[:k] = bytes for a view pw that starts at index start (0-based)
FillView(B, start, bytes) ==
    [B EXCEPT !.b = [j \in DOMAIN B.b |->
                        IF j > start /\ j <= start + Len(bytes)
                        THEN bytes[j - start] ELSE B.b[j]]]

\* (variant for comparison: write that copies the bytes but never calls
\* finish_write)
WriteNoFinish(B, w) ==
    LET B1 == pend_write(B)
        to_w == Min(Len(w), Len(B1.b) - B1.w)
    IN  [B |-> FillView(B1, B1.w, SubSeq(w, 1, to_w)), ret |-> to_w]

\* Buffer.write: the buffer afterwards and the value returned
write(B, w) ==
    LET B1 == pend_write(B)
        to_w == Min(Len(w), Len(B1.b) - B1.w)
    IN  [B |-> IF to_w # 0
               THEN finish_write(FillView(B1, B1.w, SubSeq(w, 1, to_w)), to_w)
               ELSE B1,
         ret |-> to_w]

\* (variant for comparison: readinto that takes no account of how many
\* bytes are readable)
ReadIntoAll(B, len) ==
    [B |-> IF len # 0 THEN finish_read(B, Min(len, B.n)) ELSE B,
     ret |-> len, data |-> SubSeq(B.b, 1, Min(len, Len(B.b)))]

\* Buffer.readinto for a target of len bytes: the buffer afterwards, the
\* value returned and the bytes copied into the target
readinto(B, len) ==
    LET to_r == Min(pend_read(B), len)
    IN  [B |-> IF to_r # 0 THEN finish_read(B, to_r) ELSE B,
         ret |-> to_r, data |-> SubSeq(B.b, 1, to_r)]

TheBuffer == [b |-> _b, n |-> _n, w |-> _w]

InitTest ==
    test = [name |-> "", prog |-> <<>>, line |-> 0, C |-> 0, s |-> <<>>, w |-> 0,
            r |-> 0, got |-> <<>>, failed |-> ""]

InitBuf ==
    /\ _b = BufferInit(BufLen).b
    /\ _n = BufferInit(BufLen).n
    /\ _w = BufferInit(BufLen).w
    /\ prod = [pc |-> "idle", start |-> 0, k |-> 0, moved |-> 0, part |-> FALSE, again |-> FALSE, err |-> ""]
    /\ cons = [pc |-> "idle", len |-> 0, got |-> <<>>, part |-> FALSE, again |-> FALSE, err |-> ""]
    /\ committed = <<>>
    /\ consumed = <<>>

SetBuffer(B) == /\ _b' = B.b /\ _n' = B.n /\ _w' = B.w

\* the producer calls pend_write (again, if it holds a view already)
PendWrite ==
    /\ prod.pc \in {"idle", "pend"}
    /\ SetBuffer(pend_write(TheBuffer))
    /\ prod' = [pc |-> "pend", start |-> pend_write(TheBuffer).w, k |-> 0,
                moved |-> 0, part |-> FALSE, again |-> prod.pc = "pend", err |-> ""]
    /\ UNCHANGED <<cons, committed, consumed, devVars, testVars>>

\* the producer writes k new bytes into its view; none, and write() returns 0
FillWrite(k) ==
    /\ prod.pc = "pend"
    /\ k <= BufLen - prod.start
    /\ Len(committed) + k <= MaxBytes
    /\ _b' = [j \in DOMAIN _b |->
                IF j > prod.start /\ j <= prod.start + k
                THEN Len(committed) + (j - prod.start) ELSE _b[j]]
    /\ prod' = IF k = 0 THEN [prod EXCEPT !.pc = "idle", !.again = FALSE, !.err = ""]
               ELSE [prod EXCEPT !.pc = "filled", !.k = k, !.again = FALSE, !.err = ""]
    /\ UNCHANGED <<_n, _w, cons, committed, consumed, devVars, testVars>>

\* the producer calls finish_write with the number of bytes it wrote
FinishWrite ==
    /\ prod.pc = "filled"
    /\ SetBuffer(finish_write(TheBuffer, prod.k))
    /\ committed' = committed \o [j \in 1..prod.k |-> _b[prod.start + j]]
    /\ prod' = [pc |-> "idle", start |-> 0, k |-> 0,
                moved |-> IF _n < _w THEN prod.k ELSE 0, part |-> FALSE, again |-> FALSE, err |-> ""]
    /\ UNCHANGED <<cons, consumed, devVars, testVars>>

\* the consumer calls pend_read
PendRead ==
    /\ cons.pc \in {"idle", "pend"}
    /\ cons' = [pc |-> "pend", len |-> pend_read(TheBuffer), got |-> <<>>,
                part |-> FALSE, again |-> cons.pc = "pend", err |-> ""]
    /\ UNCHANGED <<_b, _n, _w, prod, committed, consumed, devVars, testVars>>

\* the consumer copies k bytes out of its view; none, and readinto returns 0
CopyRead(k) ==
    /\ cons.pc = "pend"
    /\ k <= cons.len
    /\ cons' = IF k = 0 THEN [pc |-> "idle", len |-> 0, got |-> <<>>, part |-> FALSE, again |-> FALSE, err |-> ""]
               ELSE [cons EXCEPT !.pc = "copied", !.got = SubSeq(_b, 1, k),
                                 !.again = FALSE, !.err = ""]
    /\ UNCHANGED <<_b, _n, _w, prod, committed, consumed, devVars, testVars>>

\* the consumer calls finish_read with the number of bytes it copied
FinishRead ==
    /\ cons.pc = "copied"
    /\ SetBuffer(finish_read(TheBuffer, Len(cons.got)))
    /\ consumed' = consumed \o cons.got
    /\ cons' = [pc |-> "idle", len |-> 0, got |-> <<>>, part |-> FALSE, again |-> FALSE, err |-> ""]
    /\ UNCHANGED <<prod, committed, devVars, testVars>>

\* the producer calls finish_write with a number k above the length of its
\* view: AssertionError if the assert fails, else k bytes become readable
FinishWriteOver(k) ==
    /\ prod.pc \in {"pend", "filled"}
    /\ k > Len(_b) - prod.start
    /\ IF finish_write_ok(TheBuffer, k)
       THEN /\ Len(committed) + k <= MaxBytes
            /\ SetBuffer(finish_write(TheBuffer, k))
            /\ committed' = committed \o [j \in 1..k |-> _b[prod.start + j]]
            /\ prod' = [pc |-> "idle", start |-> 0, k |-> 0,
                        moved |-> IF _n < _w THEN k ELSE 0, part |-> FALSE,
                        again |-> FALSE, err |-> ""]
       ELSE /\ prod' = [prod EXCEPT !.err = "AssertionError", !.again = FALSE]
            /\ UNCHANGED <<_b, _n, _w, committed>>
    /\ UNCHANGED <<cons, consumed, devVars, testVars>>

\* the consumer calls finish_read with a number k above the length of its
\* view: AssertionError if the assert fails, else k bytes are consumed
FinishReadOver(k) ==
    /\ cons.pc \in {"pend", "copied"}
    /\ k > cons.len
    /\ IF finish_read_ok(TheBuffer, k)
       THEN /\ SetBuffer(finish_read(TheBuffer, k))
            /\ consumed' = consumed \o SubSeq(_b, 1, k)
            /\ cons' = [pc |-> "idle", len |-> 0, got |-> <<>>, part |-> FALSE,
                        again |-> FALSE, err |-> ""]
       ELSE /\ cons' = [cons EXCEPT !.err = "AssertionError", !.again = FALSE]
            /\ UNCHANGED <<_b, _n, _w, consumed>>
    /\ UNCHANGED <<prod, committed, devVars, testVars>>

\* the producer calls write with k new bytes and the consumer does not run
\* before it returns; prod.part says that it took some of them, not all
Write(k) ==
    /\ prod.pc = "idle"
    /\ Len(committed) + Min(k, writable(TheBuffer)) <= MaxBytes
    /\ \E R \in {write(TheBuffer, [j \in 1..k |-> Len(committed) + j])} :
          /\ SetBuffer(R.B)
          /\ committed' = committed \o [j \in 1..R.ret |-> Len(committed) + j]
          /\ prod' = [pc |-> "idle", start |-> 0, k |-> 0, moved |-> 0,
                      part |-> 0 < R.ret /\ R.ret < k,
                      again |-> FALSE, err |-> ""]
    /\ UNCHANGED <<cons, consumed, devVars, testVars>>

\* the consumer calls readinto with a target of k bytes and the producer
\* does not run before it returns; cons.part says that it filled some of
\* the target, not all
ReadInto(k) ==
    /\ cons.pc = "idle"
    /\ \E R \in {readinto(TheBuffer, k)} :
          /\ SetBuffer(R.B)
          /\ consumed' = consumed \o R.data
          /\ cons' = [pc |-> "idle", len |-> 0, got |-> <<>>,
                      part |-> 0 < R.ret /\ R.ret < k,
                      again |-> FALSE, err |-> ""]
    /\ UNCHANGED <<prod, committed, devVars, testVars>>

----------------------------------------------------------------------------
(* test_utils_buffer.py.  A test program is a sequence of statements       *)
(* <<line, statement, argument>> run one after the other on the Buffer b;  *)
(* bytes are their character codes.  The view w is kept as its start       *)
(* index and the view r as its length: both are windows on _b, not copies. *)

\* b'12345678' and b'abcdefghijklmnop'
Digits == [j \in 1..8 |-> 48 + j]
Letters == [j \in 1..16 |-> 96 + j]

\* lines 5-28, for a capacity C and bytes s in place of 16 and b'12345678'
RoundTripProg(C, s) ==
    << <<5, "Buffer", C>>,
       <<8, "assert_readable", 0>>, <<9, "assert_writable", C>>,
       <<12, "pend_write", 0>>, <<13, "assert_len_w", C>>,
       <<14, "fill", s>>, <<15, "finish_write", Len(s)>>,
       <<18, "assert_readable", Len(s)>>, <<19, "assert_writable", C - Len(s)>>,
       <<21, "pend_read", 0>>, <<22, "assert_len_r", Len(s)>>, <<23, "assert_r", s>>,
       <<24, "finish_read", Len(s)>>,
       <<27, "assert_readable", 0>>, <<28, "assert_writable", C>> >>

\* lines 30-73
SplitReads ==
    << <<31, "write", Letters>>, <<32, "assert_writable", 0>>,
       <<34, "pend_read", 0>>, <<35, "assert_r", Letters>>, <<36, "finish_read", 2>>,
       <<38, "pend_read", 0>>, <<39, "assert_r", SubSeq(Letters, 3, 16)>>,
       <<40, "finish_read", 3>>,
       <<43, "write", <<65, 66>> >>,
       <<45, "pend_read", 0>>, <<46, "assert_r", SubSeq(Letters, 6, 16) \o <<65, 66>> >>,
       <<49, "write", <<88, 89>> >>,
       <<52, "assert_r", SubSeq(Letters, 6, 16) \o <<65, 66>> >>,
       <<54, "finish_read", 4>>,
       <<55, "pend_read", 0>>,
       <<56, "assert_r", SubSeq(Letters, 10, 16) \o <<65, 66, 88, 89>> >>,
       <<59, "pend_write", 0>>, <<60, "assert_len_w", 5>>,
       <<61, "pend_read", 0>>, <<62, "assert_len_r", 11>>,
       <<63, "finish_read", 3>>,
       <<64, "fill", <<49, 50>> >>, <<65, "finish_write", 2>>,
       <<68, "read", 0>>, <<71, "read", 0>>,
       <<72, "assert_readable", 0>>, <<73, "assert_writable", 16>> >>

\* the bytes of the generalised round trip
TestBytes == {1, 2}
Strings(C) == UNION {[1..k -> TestBytes] : k \in 0..C}

\* the test as it is, and its round trip for small capacities
Programs ==
    {[name |-> "test_utils_buffer", C |-> 16, s |-> Digits,
      prog |-> RoundTripProg(16, Digits) \o SplitReads]}
    \cup {[name |-> "roundtrip", C |-> C, s |-> s, prog |-> RoundTripProg(C, s)] :
             <<C, s>> \in {<<C, s>> \in (1..MaxCap) \X Strings(MaxCap) : Len(s) <= C}}

\* an assert statement
Check(T, B, cond) == [T |-> IF cond THEN T ELSE [T EXCEPT !.failed = "AssertionError"],
                      B |-> B]

\* one statement st of the test, run with the views T.w, T.r on buffer B
Exec(T, B, st) ==
    LET a == st[3]
    IN  CASE st[2] = "Buffer" -> [T |-> T, B |-> BufferInit(a)]
          [] st[2] = "pend_write" ->
               [T |-> [T EXCEPT !.w = pend_write(B).w], B |-> pend_write(B)]
          [] st[2] = "fill" -> [T |-> T, B |-> FillView(B, T.w, a)]
          [] st[2] = "finish_write" -> [T |-> T, B |-> finish_write(B, a)]
          [] st[2] = "pend_read" -> [T |-> [T EXCEPT !.r = pend_read(B)], B |-> B]
          [] st[2] = "finish_read" ->
               [T |-> [T EXCEPT !.got = SubSeq(B.b, 1, a)], B |-> finish_read(B, a)]
          [] st[2] = "write" -> [T |-> T, B |-> write(B, a).B]
          [] st[2] = "read" -> [T |-> [T EXCEPT !.failed = "AttributeError"], B |-> B]
          [] st[2] = "assert_readable" -> Check(T, B, readable(B) = a)
          [] st[2] = "assert_writable" -> Check(T, B, writable(B) = a)
          [] st[2] = "assert_len_w" -> Check(T, B, Len(B.b) - T.w = a)
          [] st[2] = "assert_len_r" -> Check(T, B, T.r = a)
          [] st[2] = "assert_r" -> Check(T, B, SubSeq(B.b, 1, T.r) = a)

\* the test program p is started
StartTest(p) ==
    /\ test.name = ""
    /\ test' = [test EXCEPT !.name = p.name, !.C = p.C, !.s = p.s, !.prog = p.prog]
    /\ UNCHANGED <<bufVars, devVars>>

\* the next statement of the test runs, unless an exception ended the test
TestStep ==
    /\ test.prog # <<>> /\ test.failed = ""
    /\ \E r \in {Exec(test, TheBuffer, Head(test.prog))} :
          /\ test' = [r.T EXCEPT !.prog = Tail(test.prog), !.line = Head(test.prog)[1]]
          /\ SetBuffer(r.B)
    /\ UNCHANGED <<prod, cons, committed, consumed, devVars>>

----------------------------------------------------------------------------
(* Operations of the device core *)

NoRun == RunOf(<<>>, <<>>, <<>>)

\* what is observed of an operation: its name and inputs, the error raised,
\* the traffic with the bus driver, the callbacks invoked, its result, and
\* what the operation found before it ran
Observe(op, arg, S, out, pre) ==
    [op |-> op, arg |-> arg, err |-> S.err, handed |-> S.handed,
     busyhand |-> S.busyhand, invoked |-> S.invoked, seen |-> S.seen, out |-> out,
     pre |-> pre]

EnvOf(accept, sync, c, room, data) ==
    [accept |-> accept, sync |-> sync, result |-> c[1], n |-> c[2], room |-> room,
     data |-> data, epn |-> itf_ep[3]]

\* what a completion reports: (result, xferred_bytes)
Completions == {<<RESULT_SUCCESS, 1>>, <<RESULT_FAILED, 0>>}

InitDev ==
    /\ itfs = <<>>
    /\ eps = <<>>
    /\ ep_cbs = <<>>
    /\ manufacturer_str = None
    /\ dev = [p \in DeviceProperties |-> Unset]
    /\ ctrl = CDCControlInit
    /\ host = [due |-> 0, req |-> "other", wLength |-> 0, opened |-> FALSE,
               dtr |-> FALSE]
    /\ strs = _get_device_strs(None)
    /\ include_static = TRUE
    /\ config_str = None
    /\ opened = [i \in ItfIds |-> FALSE]
    /\ itf_ep = [i \in ItfIds |-> 0]
    /\ static \in {StaticOf(m) : m \in 0..MaxStatic}
    /\ inflight = [a \in EpAddrs |-> <<>>]
    /\ desc = <<>>
    /\ last = Observe("init", <<>>, NoRun, <<>>, <<>>)

\* _USBDevice.add_interface
AddInterface(i) ==
    /\ UNCHANGED <<bufVars, testVars>>
    /\ Len(itfs) < MaxItfs
    /\ itfs' = Append(itfs, i)
    /\ last' = Observe("add_interface", <<i>>, NoRun, <<>>, <<>>)
    /\ UNCHANGED <<eps, ep_cbs, strs, include_static, config_str, manufacturer_str, dev, ctrl, host, opened, itf_ep,
                   static, inflight, desc>>

\* _USBDevice.remove_interface
RemoveInterface(i) ==
    /\ UNCHANGED <<bufVars, testVars>>
    /\ i \in Range(itfs)
    /\ itfs' = RemoveFirst(itfs, i)
    /\ last' = Observe("remove_interface", <<i>>, NoRun, <<>>, <<>>)
    /\ UNCHANGED <<eps, ep_cbs, strs, include_static, config_str, manufacturer_str, dev, ctrl, host, opened, itf_ep,
                   static, inflight, desc>>

\* the application assigns _USBDevice.include_static
SetIncludeStatic(v) ==
    /\ UNCHANGED <<bufVars, testVars>>
    /\ v # include_static
    /\ include_static' = v
    /\ last' = Observe("include_static", <<v>>, NoRun, <<>>, <<>>)
    /\ UNCHANGED <<itfs, eps, ep_cbs, strs, config_str, manufacturer_str, dev, ctrl, host, opened, itf_ep, static,
                   inflight, desc>>

\* the application assigns _USBDevice.config_str
SetConfigStr(v) ==
    /\ UNCHANGED <<bufVars, testVars>>
    /\ v # config_str
    /\ config_str' = v
    /\ last' = Observe("config_str", <<v>>, NoRun, <<>>, <<>>)
    /\ UNCHANGED <<itfs, eps, ep_cbs, strs, include_static, manufacturer_str, dev, ctrl, host, opened,
                   itf_ep, static, inflight, desc>>

\* the application assigns _USBDevice.manufacturer_str
SetManufacturerStr(v) ==
    /\ UNCHANGED <<bufVars, testVars>>
    /\ v # manufacturer_str
    /\ manufacturer_str' = v
    /\ last' = Observe("manufacturer_str", <<v>>, NoRun, <<>>, <<>>)
    /\ UNCHANGED <<itfs, eps, ep_cbs, strs, include_static, config_str, dev, ctrl, host,
                   opened, itf_ep, static, inflight, desc>>

\* the application assigns one of the device properties
SetDeviceProperty(p, v) ==
    /\ UNCHANGED <<bufVars, testVars>>
    /\ v # dev[p]
    /\ dev' = [dev EXCEPT ![p] = v]
    /\ last' = Observe("device_property", <<p, v>>, NoRun, <<>>, <<>>)
    /\ UNCHANGED <<itfs, eps, ep_cbs, strs, include_static, config_str, manufacturer_str,
                   ctrl, host, opened, itf_ep, static, inflight, desc>>

\* the bus driver asks for the device descriptor
DescriptorDeviceCb ==
    /\ UNCHANGED <<bufVars, testVars>>
    /\ \E r \in {_descriptor_device_cb(dev, manufacturer_str)} :
           last' = Observe("descriptor_device", <<>>, Raise(NoRun, r.err),
                           [desc |-> r.desc], <<>>)
    /\ UNCHANGED <<itfs, eps, ep_cbs, strs, include_static, config_str, manufacturer_str,
                   dev, ctrl, host, opened, itf_ep, static, inflight, desc>>

\* the bus driver asks for the configuration descriptor
DescriptorConfigCb ==
    \E r \in {_descriptor_config_cb(itfs, include_static, config_str, static, strs,
                                     itf_ep)} :
        /\ eps' = r.eps
        /\ ep_cbs' = [a \in DOMAIN r.eps |-> None]
        /\ itf_ep' = r.itf_ep
        /\ strs' = IF r.err = "" THEN r.strs ELSE strs
        /\ desc' = IF r.err = "" THEN r.desc ELSE desc
        /\ last' = Observe("descriptor_config", <<>>, Raise(NoRun, r.err),
                            [assigned |-> r.assigned, counter |-> r.counter],
                            IF last.op = "descriptor_config" /\ last.err = ""
                            THEN [again |-> TRUE, desc |-> desc, strs |-> strs,
                                  oldlen |-> Len(strs)]
                            ELSE [again |-> FALSE, desc |-> <<>>, strs |-> <<>>,
                                  oldlen |-> Len(strs)])
        /\ UNCHANGED <<itfs, include_static, config_str, manufacturer_str, dev, ctrl, host, opened, static, inflight>>
        /\ UNCHANGED <<bufVars, testVars>>

\* the interface descriptors in a configuration descriptor, in order: of each
\* its bInterfaceNumber, bInterfaceClass and iInterface ("<BBBBBBBBB")
RECURSIVE ItfDescs(_)
ItfDescs(d) ==
    IF Len(d) < 2 \/ d[1] = 0 THEN <<>>
    ELSE (IF d[2] = STD_DESC_INTERFACE_TYPE THEN <<<<d[3], d[6], d[9]>>>> ELSE <<>>)
             \o ItfDescs(SubSeq(d, d[1] + 1, Len(d)))

\* the descriptors of type t in a configuration descriptor, in order
RECURSIVE DescsOfType(_, _)
DescsOfType(d, t) ==
    IF Len(d) < 2 \/ d[1] = 0 \/ d[1] > Len(d) THEN <<>>
    ELSE (IF d[2] = t THEN <<SubSeq(d, 1, d[1])>> ELSE <<>>)
             \o DescsOfType(SubSeq(d, d[1] + 1, Len(d)), t)

\* the descriptors the bus driver offers on Set Configuration: those of the
\* last configuration descriptor from the first interface that is not built in
RECURSIVE ClaimedFrom(_, _)
ClaimedFrom(d, st) ==
    IF Len(d) < 3 \/ d[1] = 0 THEN <<>>
    ELSE IF d[2] = STD_DESC_INTERFACE_TYPE /\ d[3] >= st.itf_max THEN d
    ELSE ClaimedFrom(SubSeq(d, d[1] + 1, Len(d)), st)

ClaimedView(d, st) == ClaimedFrom(SubSeq(d, STD_DESC_CONFIG_LEN + 1, Len(d)), st)

\* the bus driver reports Set Configuration
OpenCb(accept, room, data) ==
    /\ UNCHANGED <<bufVars, testVars>>
    /\ desc # <<>>
    /\ \E S \in {_open_cb(RunOf(ep_cbs, inflight, opened), ClaimedView(desc, static),
                         itfs, static,
                         EnvOf(accept, FALSE, <<RESULT_SUCCESS, 0>>, room, data))} :
           /\ ep_cbs' = S.cbs
           /\ inflight' = S.fl
           /\ opened' = S.opened
           /\ last' = Observe("open", <<>>, S, <<>>,
                              [opened |-> {i \in Range(itfs) : opened[i]}])
    /\ UNCHANGED <<itfs, eps, strs, include_static, config_str, manufacturer_str, dev, ctrl, host, itf_ep, static, desc>>

\* what a bus reset leaves of the bus driver's queue on an endpoint: nothing,
\* or one cancelled transfer whose completion may still be reported
CancelAll(fl, drop) ==
    [a \in DOMAIN fl |-> IF drop \/ fl[a] = <<>> THEN <<>> ELSE <<"cancelled">>]

\* the bus driver reports a bus reset
ResetCb(drop) ==
    /\ UNCHANGED <<bufVars, testVars>>
    /\ \E S \in {_reset_cb(RunOf(ep_cbs, inflight, opened), itfs)} :
           /\ ep_cbs' = S.cbs
           /\ opened' = S.opened
           /\ inflight' = CancelAll(inflight, drop)
           /\ last' = Observe("reset", <<>>, S, <<>>,
                              [marks |-> {a \in DOMAIN ep_cbs : ep_cbs[a] # None},
                               opened |-> {i \in Range(itfs) : opened[i]}])
    /\ UNCHANGED <<itfs, eps, strs, include_static, config_str, manufacturer_str, dev, ctrl, host, itf_ep, static, desc>>

\* a driver (interface object i) calls USBInterface.submit_xfer(e, data, cb)
\* on one of its endpoints (ep_out or ep_in, None before the first build)
SubmitXfer(i, e, cb, accept, sync) ==
    /\ UNCHANGED <<bufVars, testVars>>
    /\ \E S \in {submit_xfer(RunOf(ep_cbs, inflight, opened), i, e, cb,
                            EnvOf(accept, sync, <<RESULT_SUCCESS, 1>>, FALSE, FALSE))} :
           /\ ep_cbs' = S.cbs
           /\ inflight' = S.fl
           /\ last' = Observe("submit", <<e, cb, sync>>, S, <<>>,
                              [busy |-> e \in DOMAIN inflight /\ Busy(inflight[e]),
                               open |-> opened[i],
                               mapped |-> e \in DOMAIN ep_cbs])
    /\ UNCHANGED <<itfs, eps, strs, include_static, config_str, manufacturer_str, dev, ctrl, host, opened, itf_ep,
                   static, desc>>

\* a driver (interface object i) calls USBInterface.xfer_pending(e)
XferPending(i, e) ==
    /\ UNCHANGED <<bufVars, testVars>>
    /\ \E r \in {xfer_pending(RunOf(ep_cbs, inflight, opened), e)} :
           last' = Observe("xfer_pending", <<e>>, r.S, [ret |-> r.ret],
                           [open |-> opened[i]])
    /\ UNCHANGED <<itfs, eps, ep_cbs, strs, include_static, config_str, manufacturer_str, dev, ctrl, host, opened, itf_ep,
                   static, inflight, desc>>

\* a driver (interface object i) calls USBInterface.set_ep_stall(e, stall)
SetEpStall(i, e, stall) ==
    /\ UNCHANGED <<bufVars, testVars>>
    /\ \E S \in {set_ep_stall(RunOf(ep_cbs, inflight, opened), i, e, eps)} :
           last' = Observe("set_ep_stall", <<e, stall>>, S, <<>>, [open |-> opened[i]])
    /\ UNCHANGED <<itfs, eps, ep_cbs, strs, include_static, config_str, manufacturer_str, dev, ctrl, host, opened, itf_ep,
                   static, inflight, desc>>

\* a driver (interface object i) calls USBInterface.get_ep_stall(e)
GetEpStall(i, e, answer) ==
    /\ UNCHANGED <<bufVars, testVars>>
    /\ \E r \in {get_ep_stall(RunOf(ep_cbs, inflight, opened), i, e, eps, answer)} :
           last' = Observe("get_ep_stall", <<e>>, r.S, [ret |-> r.ret],
                           [open |-> opened[i]])
    /\ UNCHANGED <<itfs, eps, ep_cbs, strs, include_static, config_str, manufacturer_str, dev, ctrl, host, opened, itf_ep,
                   static, inflight, desc>>

\* CDCDataInterface.write: bytes go to the transmit buffer, then _wr_xfer
CDCWrite(accept, sync) ==
    /\ UNCHANGED <<bufVars, testVars>>
    /\ \E S \in {_wr_xfer(RunOf(ep_cbs, inflight, opened),
                         EnvOf(accept, sync, <<RESULT_SUCCESS, 1>>, FALSE, TRUE))} :
           /\ ep_cbs' = S.cbs
           /\ inflight' = S.fl
           /\ last' = Observe("write", <<>>, S, <<>>, <<>>)
    /\ UNCHANGED <<itfs, eps, strs, include_static, config_str, manufacturer_str, dev, ctrl, host, opened, itf_ep,
                   static, desc>>

\* the bus driver reports the completion of the oldest transfer on e
XferCb(e, c, accept, more) ==
    /\ UNCHANGED <<bufVars, testVars>>
    /\ inflight[e] # <<>>
    /\ \E S \in {DriverComplete(RunOf(ep_cbs, inflight, opened), e,
                               EnvOf(accept, FALSE, c, more, more))} :
           /\ ep_cbs' = S.cbs
           /\ inflight' = S.fl
           /\ last' = Observe("xfer", <<e, c[1], c[2]>>, S, [more |-> more],
                              [head |-> Head(inflight[e]),
                               mark |-> IF e \in DOMAIN ep_cbs THEN ep_cbs[e] ELSE None])
    /\ UNCHANGED <<itfs, eps, strs, include_static, config_str, manufacturer_str, dev, ctrl, host, opened, itf_ep,
                   static, desc>>

\* the bus driver delivers one stage of a control transfer for the CDC
\* control interface: SETUP at any time, DATA and ACK when the transfer in
\* progress has come to them.  In the data stage of SET_LINE_CODING the bus
\* driver has written the payload of the host into the buffer it was handed
\* at SETUP, which is _line_coding itself.
CdcControlXferCb(stage, req, wValue, wLength, drv, payload) ==
    LET wIndex == CHOOSE n \in static.itf_max..(static.itf_max + Len(itfs) - 1) :
                     itfs[n - static.itf_max + 1] = 4
        C0 == IF stage = STAGE_DATA /\ req = "SET_LINE_CODING"
              THEN [ctrl EXCEPT !._line_coding =
                       [j \in DOMAIN @ |-> IF j <= wLength THEN payload[j] ELSE @[j]]]
              ELSE ctrl
    IN  /\ 4 \in Range(itfs)
        /\ stage = STAGE_SETUP \/ (host.due = stage /\ host.req = req
                                      /\ host.wLength = wLength)
        /\ \E r \in {_control_xfer_cb_cdc(C0, stage, req, wIndex, wValue, wLength,
                                          itfs, static, drv)} :
               /\ ctrl' = r.C
               /\ host' = [host EXCEPT
                             !.due = IF ~r.ret \/ stage = STAGE_ACK THEN 0
                                     ELSE IF stage = STAGE_SETUP /\ wLength > 0
                                     THEN STAGE_DATA ELSE STAGE_ACK,
                             !.req = req, !.wLength = wLength,
                             !.dtr = @ \/ (/\ stage = STAGE_SETUP
                                           /\ req = "SET_CONTROL_LINE_STATE"
                                           /\ wValue % 2 = 1)]
               /\ last' = Observe("cdc_control", <<stage, req, wValue, wLength>>, NoRun,
                                  [result |-> r.result, ret |-> r.ret, cbs |-> r.cbs],
                                  [ctrl |-> ctrl])
        /\ UNCHANGED <<itfs, eps, ep_cbs, strs, include_static, config_str,
                       manufacturer_str, dev, opened, itf_ep, static, inflight, desc>>
        /\ UNCHANGED <<bufVars, testVars>>

\* the bus driver reports Set Configuration (the buffers of the data
\* interface are empty and have room)
CdcOpenCb ==
    /\ desc # <<>>
    /\ \E S \in {_open_cb(RunOf(ep_cbs, inflight, opened), ClaimedView(desc, static),
                         itfs, static,
                         EnvOf(TRUE, FALSE, <<RESULT_SUCCESS, 0>>, TRUE, FALSE))} :
           /\ ep_cbs' = S.cbs
           /\ inflight' = S.fl
           /\ opened' = S.opened
           /\ last' = Observe("cdc_open", <<>>, S, <<>>, <<>>)
    /\ host' = [host EXCEPT !.opened = TRUE]
    /\ UNCHANGED <<itfs, eps, strs, include_static, config_str, manufacturer_str, dev,
                   ctrl, itf_ep, static, desc>>
    /\ UNCHANGED <<bufVars, testVars>>

\* the bus driver reports a bus reset: the control transfer in progress is
\* gone
CdcResetCb ==
    /\ \E S \in {_reset_cb(RunOf(ep_cbs, inflight, opened), itfs)} :
           /\ ep_cbs' = S.cbs
           /\ opened' = S.opened
           /\ inflight' = CancelAll(inflight, TRUE)
           /\ last' = Observe("cdc_reset", <<>>, S, <<>>, <<>>)
    /\ host' = [due |-> 0, req |-> "other", wLength |-> 0, opened |-> FALSE,
                dtr |-> FALSE]
    /\ UNCHANGED <<itfs, eps, strs, include_static, config_str, manufacturer_str, dev,
                   ctrl, itf_ep, static, desc>>
    /\ UNCHANGED <<bufVars, testVars>>

\* CDC receive path.  In these actions the Buffer of the state is
\* CDCDataInterface._rb; the bus driver takes every transfer it is handed.
\* _rd_xfer evaluates _rb.pend_write() for the transfer it submits, so the
\* window is opened whenever the run handed a transfer to the driver.
RxEnv(c, B) == EnvOf(TRUE, FALSE, c, writable(B) > 0, FALSE)

RxAfter(S, B) == IF S.handed > 0 THEN pend_write(B) ELSE B

\* the bus driver reports Set Configuration: handle_open calls _rd_xfer
RxOpenCb ==
    /\ desc # <<>>
    /\ \E S \in {_open_cb(RunOf(ep_cbs, inflight, opened), ClaimedView(desc, static),
                         itfs, static, RxEnv(<<RESULT_SUCCESS, 0>>, TheBuffer))} :
           /\ ep_cbs' = S.cbs
           /\ inflight' = S.fl
           /\ opened' = S.opened
           /\ SetBuffer(RxAfter(S, TheBuffer))
           /\ last' = Observe("rx_open", <<>>, S, <<>>, <<>>)
    /\ UNCHANGED <<itfs, eps, strs, include_static, config_str, manufacturer_str, dev, ctrl, host,
                   itf_ep, static, desc>>
    /\ UNCHANGED <<prod, cons, committed, consumed, testVars>>

\* the OUT transfer completes with result c[1] and c[2] bytes: _xfer_cb runs
\* _rd_cb, which calls _rb.finish_write on success and then _rd_xfer
RxXferCb(c) ==
    LET e == itf_ep[3]
        called == e \in DOMAIN ep_cbs /\ ep_cbs[e] = "_rd_cb"
        B1 == IF called /\ c[1] = RESULT_SUCCESS THEN finish_write(TheBuffer, c[2])
              ELSE TheBuffer
    IN  /\ e \in DOMAIN inflight
        /\ inflight[e] # <<>> /\ Head(inflight[e]) = "_rd_cb"
        /\ c[2] <= Len(_b) - _w
        /\ \E S \in {DriverComplete(RunOf(ep_cbs, inflight, opened), e, RxEnv(c, B1))} :
               /\ ep_cbs' = S.cbs
               /\ inflight' = S.fl
               /\ SetBuffer(RxAfter(S, B1))
               /\ last' = Observe("rx_xfer", <<c[1], c[2]>>, S, <<>>, <<>>)
        /\ UNCHANGED <<itfs, eps, strs, include_static, config_str, manufacturer_str, dev, ctrl, host,
                       opened, itf_ep, static, desc>>
        /\ UNCHANGED <<prod, cons, committed, consumed, testVars>>

\* the application reads: CDCDataInterface._readinto copies out of _rb with
\* _rb.readinto and returns what it got
RxRead(len) ==
    /\ \E r \in {readinto(TheBuffer, len)} :
           /\ SetBuffer(r.B)
           /\ last' = Observe("rx_read", <<len>>, NoRun, [ret |-> r.ret], <<>>)
    /\ UNCHANGED <<itfs, eps, ep_cbs, strs, include_static, config_str, manufacturer_str,
                   dev, ctrl, host, opened, itf_ep, static, inflight, desc>>
    /\ UNCHANGED <<prod, cons, committed, consumed, testVars>>

\* CDC transmit path.  In these actions the Buffer of the state is
\* CDCDataInterface._wb (the receive buffer is left out: it has no room);
\* prod is the application inside CDCDataInterface.write, cons the IN
\* transfer (len the length of the view it was submitted with); committed
\* are the bytes Buffer.write appended to _wb so far, consumed the bytes
\* finish_read took from it.
TxEnv(accept, c, B) == EnvOf(accept, FALSE, c, FALSE, readable(B) > 0)

\* _wr_xfer evaluates _wb.pend_read() for the transfer it submits
TxPended(S, B) == IF S.handed > 0 THEN [pc |-> "pend", len |-> pend_read(B)] ELSE cons

\* (variant for comparison: _wr_cb that consumes whatever the result is)
ConsumeAlways(B, res, num_bytes) == finish_read(B, num_bytes)

\* CDCDataInterface._wr_cb up to its call of _wr_xfer
_wr_cb(B, res, num_bytes) ==
    IF res = RESULT_SUCCESS THEN finish_read(B, num_bytes) ELSE B

\* the bus driver reports Set Configuration: handle_open calls _wr_xfer
TxOpenCb ==
    /\ desc # <<>>
    /\ \E S \in {_open_cb(RunOf(ep_cbs, inflight, opened), ClaimedView(desc, static),
                         itfs, static, TxEnv(TRUE, <<RESULT_SUCCESS, 0>>, TheBuffer))} :
           /\ ep_cbs' = S.cbs
           /\ inflight' = S.fl
           /\ opened' = S.opened
           /\ cons' = TxPended(S, TheBuffer)
           /\ last' = Observe("tx_open", <<>>, S, <<>>, <<>>)
    /\ UNCHANGED <<itfs, eps, strs, include_static, config_str, manufacturer_str, dev, ctrl, host,
                   itf_ep, static, desc>>
    /\ UNCHANGED <<_b, _n, _w, prod, committed, consumed, testVars>>

\* the IN transfer completes with result c[1] and c[2] bytes: _xfer_cb runs
\* _wr_cb
TxXferCb(c, accept) ==
    LET e == itf_ep[3] + EP_IN_FLAG
        called == e \in DOMAIN ep_cbs /\ ep_cbs[e] = "_wr_cb"
        B1 == IF called THEN _wr_cb(TheBuffer, c[1], c[2]) ELSE TheBuffer
    IN  /\ e \in DOMAIN inflight
        /\ inflight[e] # <<>> /\ Head(inflight[e]) = "_wr_cb"
        /\ c[2] <= cons.len
        /\ \E S \in {DriverComplete(RunOf(ep_cbs, inflight, opened), e,
                                   TxEnv(accept, c, B1))} :
               /\ ep_cbs' = S.cbs
               /\ inflight' = S.fl
               /\ cons' = TxPended(S, B1)
               /\ last' = Observe("tx_xfer", <<c[1], c[2]>>, S, [called |-> called],
                                  [b |-> _b, n |-> _n, consumed |-> consumed])
        /\ SetBuffer(B1)
        /\ consumed' = consumed \o SubSeq(_b, 1, _n - B1.n)
        /\ UNCHANGED <<itfs, eps, strs, include_static, config_str, manufacturer_str, dev, ctrl, host,
                       opened, itf_ep, static, desc>>
        /\ UNCHANGED <<prod, committed, testVars>>

\* the bytes the application passes to write: n bytes not written before
TxBytes(n) == [j \in 1..n |-> Len(committed) + j]

\* CDCDataInterface.write, the first half of one turn of its loop:
\* Buffer.write up to its call of finish_write.  buf is the argument of a
\* new call (not used when the call is in its loop already).
TxWritePend(buf) ==
    LET mv == IF prod.pc = "idle" THEN buf ELSE prod.mv
        B1 == pend_write(TheBuffer)
        to_w == Min(Len(mv), Len(B1.b) - B1.w)
    IN  /\ prod.pc \in {"idle", "loop"}
        /\ prod.pc = "loop" => buf = prod.buf
        /\ SetBuffer(FillView(B1, B1.w, SubSeq(mv, 1, to_w)))
        /\ prod' = [pc |-> "copied", buf |-> buf, mv |-> mv, to_w |-> to_w,
                    base |-> IF prod.pc = "idle" THEN Len(committed) ELSE prod.base]
        /\ last' = Observe("tx_write_pend", <<buf>>, NoRun, <<>>, <<>>)
        /\ UNCHANGED <<itfs, eps, ep_cbs, strs, include_static, config_str,
                       manufacturer_str, dev, ctrl, host, opened, itf_ep, static, inflight, desc>>
        /\ UNCHANGED <<cons, committed, consumed, testVars>>

\* the second half: finish_write, _wr_xfer, and then the call returns
\* len(buf), goes round the loop again or, when timeout, returns
\* len(buf) - len(mv)
TxWriteFinish(timeout, accept) ==
    LET B1 == IF prod.to_w # 0 THEN finish_write(TheBuffer, prod.to_w) ELSE TheBuffer
        rest == SubSeq(prod.mv, prod.to_w + 1, Len(prod.mv))
    IN  /\ prod.pc = "copied"
        /\ SetBuffer(B1)
        /\ committed' = committed \o SubSeq(prod.mv, 1, prod.to_w)
        /\ \E S \in {_wr_xfer(RunOf(ep_cbs, inflight, opened),
                             TxEnv(accept, <<RESULT_SUCCESS, 0>>, B1))} :
               /\ ep_cbs' = S.cbs
               /\ inflight' = S.fl
               /\ cons' = TxPended(S, B1)
               /\ IF S.err # ""
                  THEN /\ prod' = [prod EXCEPT !.pc = "idle"]
                       /\ last' = Observe("tx_write", <<prod.buf>>, S, [ret |-> -1],
                                          [base |-> prod.base])
                  ELSE IF rest = <<>>
                  THEN /\ prod' = [prod EXCEPT !.pc = "idle"]
                       /\ last' = Observe("tx_write", <<prod.buf>>, S,
                                          [ret |-> Len(prod.buf)], [base |-> prod.base])
                  ELSE IF timeout
                  THEN /\ prod' = [prod EXCEPT !.pc = "idle"]
                       /\ last' = Observe("tx_write", <<prod.buf>>, S,
                                          [ret |-> Len(prod.buf) - Len(rest)],
                                          [base |-> prod.base])
                  ELSE /\ prod' = [prod EXCEPT !.pc = "loop", !.mv = rest]
                       /\ last' = Observe("tx_write_loop", <<prod.buf>>, S, <<>>, <<>>)
        /\ UNCHANGED <<itfs, eps, strs, include_static, config_str, manufacturer_str, dev, ctrl, host,
                       opened, itf_ep, static, desc>>
        /\ UNCHANGED <<consumed, testVars>>

\* values of bmRequestType & 0x1F and of wIndex in control requests: the
\* interface numbers and the endpoint addresses around those in use
Recipients == REQ_RECIPIENT_DEVICE..REQ_RECIPIENT_OTHER
Stages == {STAGE_SETUP, STAGE_DATA, STAGE_ACK}
WIndexes == (0..(MaxStatic + MaxItfs)) \cup EpAddrs

\* the bus driver delivers one stage of a control transfer
ControlXferCb(stage, recipient, wIndex, asserts, hbuf, drv) ==
    /\ UNCHANGED <<bufVars, testVars>>
    /\ \E r \in {_control_xfer_cb(stage, recipient, wIndex, itfs, eps, static, asserts,
                                    hbuf, drv)} :
           last' = Observe("control", <<stage, recipient, wIndex>>, Raise(NoRun, r.err),
                           [ret |-> r.ret, data |-> r.data, handlers |-> r.handlers,
                            result |-> r.result],
                           <<>>)
    /\ UNCHANGED <<itfs, eps, ep_cbs, strs, include_static, config_str, manufacturer_str, dev, ctrl, host, opened, itf_ep,
                   static, inflight, desc>>

\* string indexes the host may ask for: the built-in ones, those a build can
\* hand out and some above them
StrIndexes == 0..(MaxStatic + MaxItfs + 3)

\* the bus driver asks for a string descriptor
DescriptorStringCb(index, asserts) ==
    /\ UNCHANGED <<bufVars, testVars>>
    /\ \E r \in {_descriptor_string_cb(index, static, strs, asserts)} :
           last' = Observe("descriptor_string", <<index>>, Raise(NoRun, r.err),
                           [ret |-> r.ret],
                           \* stale: the index was in the table that the build
                           \* just before this request replaced
                           [stale |-> /\ last.op = "descriptor_config"
                                      /\ last.err = ""
                                      /\ index >= static.str_max
                                      /\ index - static.str_max < last.pre.oldlen])
    /\ UNCHANGED <<itfs, eps, ep_cbs, strs, include_static, config_str, manufacturer_str, dev, ctrl, host,
                   opened, itf_ep, static, inflight, desc>>

\* the bus driver delivers one stage of a control transfer for the interface
\* of a registered HID function
HidControlXferCb(stage, req, wIndex, wLength, drv) ==
    /\ UNCHANGED <<bufVars, testVars>>
    /\ wIndex >= static.itf_max /\ wIndex - static.itf_max < Len(itfs)
    /\ ItfClass(itfs[wIndex - static.itf_max + 1]) \in {"MouseInterface", "HIDInterface"}
    /\ \E r \in {_control_xfer_cb_hid(stage, req, wIndex, wLength, itfs, static, drv)} :
           last' = Observe("hid_control", <<stage, req, wLength>>, NoRun,
                           [itf |-> r.itf, result |-> r.result, expect |-> r.expect,
                            ret |-> r.ret, data |-> r.data],
                           <<>>)
    /\ UNCHANGED <<itfs, eps, ep_cbs, strs, include_static, config_str, manufacturer_str, dev, ctrl, host, opened, itf_ep,
                   static, inflight, desc>>

vars == <<devVars, bufVars, testVars>>

Init == InitDev /\ InitBuf /\ InitTest

----------------------------------------------------------------------------
(* Properties *)

\* C1: on each endpoint at most one transfer is in flight: no operation
\* hands the bus driver a transfer on an endpoint whose previous transfer
\* has neither completed nor been cancelled by a bus reset.
OneTransferInFlight == ~last.busyhand

\* C2: a submit on an open function's endpoint while the previous transfer
\* on it has not completed fails with RuntimeError "xfer_pending" and does
\* not reach the bus driver, with or without a callback on either
\* submission; once the endpoint holds no transfer, a submit is not refused
\* as pending.
SecondSubmitRefused ==
    (last.op = "submit" /\ last.pre.open /\ last.pre.mapped) =>
        IF last.pre.busy THEN last.err = "xfer_pending" /\ last.handed = 0
        ELSE last.err # "xfer_pending"

\* C4: a transfer submitted with a callback gets exactly one invocation of
\* it, with (endpoint, result, transferred bytes), when its completion is
\* reported; a completion of a transfer without callback, or of one
\* cancelled, invokes nothing; a completion reported before submit returns
\* invokes the callback exactly once too.
ExactlyOneCompletion ==
    /\ last.op = "xfer" =>
          last.invoked = IF last.pre.head \in Callbacks
                         THEN <<<<last.pre.head, last.arg[1], last.arg[2], last.arg[3]>>>>
                         ELSE <<>>
    /\ (last.op = "submit" /\ last.err = "") =>
          last.invoked = IF last.arg[3] /\ last.arg[2] # None
                         THEN <<<<last.arg[2], last.arg[1], RESULT_SUCCESS, 1>>>>
                         ELSE <<>>

\* C11: when the bus driver rejects a transfer, submit raises RuntimeError
\* "submit failed", the endpoint is not pending afterwards, the callback
\* given is not invoked, and no following submit on that endpoint is
\* refused as pending.
RejectedSubmitRolledBack ==
    (last.op = "submit" /\ last.err = "submit failed") =>
        /\ ep_cbs[last.arg[1]] = None
        /\ last.invoked = <<>>
        /\ \A cb \in {None, "done_cb"}, accept, sync \in BOOLEAN :
              submit_xfer(RunOf(ep_cbs, inflight, opened), 3, last.arg[1], cb,
                          EnvOf(accept, sync, <<RESULT_SUCCESS, 1>>, FALSE, FALSE)).err
                  # "xfer_pending"

\* the bus driver has rejected a transfer, submitted with a callback on an
\* endpoint that held no transfer
DriverRejectedSubmit ==
    /\ last.op = "submit" /\ last.err = "submit failed"
    /\ last.arg[2] = "done_cb"
    /\ ~last.pre.busy
    /\ last.handed = 1

\* C12: a bus reset clears every pending mark and invokes no completion
\* callback; the marks are cleared already when the first reset hook runs;
\* and the completion, reported after the reset, of a transfer submitted
\* before it invokes no callback.
ResetCancelsSilently ==
    /\ last.op = "reset" =>
          /\ \A a \in DOMAIN ep_cbs : ep_cbs[a] = None
          /\ last.invoked = <<>>
          /\ \A k \in DOMAIN last.seen : last.seen[k] = {}
    /\ (last.op = "xfer" /\ last.pre.head = "cancelled") => last.invoked = <<>>

\* C13: a configuration descriptor built right after another one, with no
\* function added, removed or changed in between, is byte-identical to it and
\* leaves an identical string table, so a string index of the first
\* descriptor resolves to the same string after the second build
RebuildIsIdentical ==
    (last.op = "descriptor_config" /\ last.pre.again) =>
        /\ last.err = ""
        /\ desc = last.pre.desc
        /\ strs = last.pre.strs

\* C13 happens: a second build of a descriptor with a function that has an
\* interface string
RebuiltWithStrings ==
    /\ last.op = "descriptor_config" /\ last.pre.again
    /\ last.pre.strs # <<>>
    /\ Len(itfs) = MaxItfs

\* C14: within one build of the configuration descriptor no endpoint address
\* is assigned twice, endpoint number 0 and the endpoint numbers of the
\* built-in interfaces are never assigned, and the endpoint counter never
\* decreases from one function to the next
EndpointsAssignedOnce ==
    last.op = "descriptor_config" =>
        LET A == last.out.assigned
            C == last.out.counter
        IN  /\ \A j, k \in DOMAIN A : j # k => A[j][2] # A[k][2]
            /\ \A j \in DOMAIN A :
                  /\ A[j][2] % EP_IN_FLAG >= Max(static.ep_max, 1)
                  /\ A[j][2] % EP_IN_FLAG \notin StaticEpNums(static)
            /\ \A j \in 1..(Len(C) - 1) : C[j] <= C[j + 1]

\* C14 happens: a build next to a built-in interface, with two functions
\* that both have endpoints
TwoFunctionsGotEndpoints ==
    /\ last.op = "descriptor_config" /\ static.itf_max > 0
    /\ \E j, k \in DOMAIN last.out.assigned :
          last.out.assigned[j][1] # last.out.assigned[k][1]

\* C15: the scripted sequence of the test on a Buffer of capacity 16 - write
\* 'abcdefghijklmnop', finish_read(2), finish_read(3), write 'AB', take a
\* read view, write 'XY', finish_read(4) - leaves the readable content
\* 'jklmnopABXY', the read view still showing 'fghijklmnopAB' after the
\* write of 'XY'; then pend_write gives a view of length 5, and
\* finish_read(3), '12' written into the view and finish_write(2) leave the
\* readable content 'mnopABXY12'; no assert before that fails
ScriptedContents ==
    test.name = "test_utils_buffer" =>
        /\ test.line <= 65 => test.failed = ""
        /\ test.line \in {49, 52} =>
              SubSeq(_b, 1, test.r) = <<102, 103, 104, 105, 106, 107, 108, 109, 110,
                                        111, 112, 65, 66>>
        /\ test.line \in {54, 55, 56} =>
              SubSeq(_b, 1, _n) = <<106, 107, 108, 109, 110, 111, 112, 65, 66, 88, 89>>
        /\ test.line \in {59, 60} => Len(_b) - test.w = 5
        /\ test.line >= 65 =>
              SubSeq(_b, 1, _n) = <<109, 110, 111, 112, 65, 66, 88, 89, 49, 50>>

\* C15 happens: the test has run up to its last finish_write
ScriptRanToLastWrite ==
    test.name = "test_utils_buffer" /\ test.line = 65

\* C16: on an empty Buffer of capacity C, bytes s with len(s) <= C committed
\* through pend_write/finish_write and read through pend_read/finish_read
\* come back as s; readable() = 0 and writable() = C before the write and
\* after the read, readable() = len(s) and writable() = C - len(s) in between
RoundTrip ==
    (test.line >= 5 /\ test.line <= 28) =>
        /\ test.failed = ""
        /\ Len(_b) = test.C
        /\ test.line < 15 => readable(TheBuffer) = 0 /\ writable(TheBuffer) = test.C
        /\ (test.line >= 15 /\ test.line < 24) =>
              /\ readable(TheBuffer) = Len(test.s)
              /\ writable(TheBuffer) = test.C - Len(test.s)
        /\ test.line >= 24 =>
              /\ test.got = test.s
              /\ readable(TheBuffer) = 0 /\ writable(TheBuffer) = test.C

\* C16 happens: a string that fills the buffer has gone round
RoundTripDone ==
    /\ test.name = "roundtrip" /\ test.line = 28
    /\ Len(test.s) = test.C /\ test.C >= 2

\* C17: when a read was finished while a write window was pending (_n fell
\* below the window start _w), finish_write(k) moves the k bytes written at
\* the window start right behind the remaining readable data, in the order
\* written, leaves the remaining readable bytes as they are, and readable()
\* grows by k
WriteRelocatesBehindData ==
    [][(FinishWrite /\ _n < _w) =>
          /\ _n' = _n + prod.k
          /\ \A j \in 1.._n : _b'[j] = _b[j]
          /\ \A j \in 1..prod.k : _b'[_n + j] = _b[prod.start + j]]_vars

\* C17 happens: a finish_write of two bytes or more has moved them behind
\* readable data that was left
RelocatedBehindData ==
    /\ prod.pc = "idle"
    /\ prod.moved >= 2 /\ _n > prod.moved

\* C18: finish_read(k) with k <= n removes the first k readable bytes: then
\* readable() = n - k, the other n - k bytes are at [0, n-k) in their order,
\* and the bytes of a pending write window at [w, capacity) are untouched
ReadCompactsToFront ==
    [][FinishRead =>
          /\ Len(cons.got) <= _n
          /\ _n' = _n - Len(cons.got)
          /\ \A j \in 1.._n' : _b'[j] = _b[j + Len(cons.got)]
          /\ \A j \in (_w + 1)..Len(_b) : _b'[j] = _b[j]]_vars

\* C18 happens: part of the data was read while the producer had written
\* into its pending window
PartReadWhileWriting ==
    /\ prod.pc = "filled" /\ _n < _w /\ _n >= 1
    /\ cons.pc = "idle" /\ consumed # <<>>

\* C19: the buffer is always readable data [0, n), unused space [n, w) and
\* the pending write window [w, capacity) with 0 <= n <= w <= capacity;
\* w = n right after pend_write, w = capacity after every finish_write, and
\* readable() + writable() = capacity
BufferLayout ==
    /\ [](/\ 0 <= _n /\ _n <= _w /\ _w <= Len(_b)
          /\ readable(TheBuffer) + writable(TheBuffer) = Len(_b))
    /\ [][/\ PendWrite => _w' = _n'
          /\ FinishWrite => _w' = Len(_b')]_vars

\* C19 happens: readable data, unused space and a pending window, all three
\* not empty
ThreeZones ==
    /\ 0 < _n /\ _n < _w /\ _w < Len(_b)
    /\ prod.pc = "filled"

\* C20: write(bytes) returns min(len(bytes), capacity - n) and appends that
\* many leading bytes of its input to the readable data; readinto(buffer)
\* returns min(n, len(buffer)) and copies and consumes that many bytes from
\* the head; both return these values whatever state the buffer is in
WriteReadintoCounts ==
    /\ [](\A k \in 0..BufLen :
            /\ write(TheBuffer, Zeros(k)).ret = Min(k, Len(_b) - _n)
            /\ readinto(TheBuffer, k).ret = Min(_n, k))
    /\ [][/\ \A k \in 0..BufLen : Write(k) =>
                /\ _n' = _n + Min(k, Len(_b) - _n)
                /\ SubSeq(_b', 1, _n') =
                      SubSeq(_b, 1, _n)
                        \o [j \in 1..Min(k, Len(_b) - _n) |-> Len(committed) + j]
          /\ \A k \in 0..BufLen : ReadInto(k) =>
                /\ consumed' = consumed \o SubSeq(_b, 1, Min(_n, k))
                /\ _n' = _n - Min(_n, k)
                /\ SubSeq(_b', 1, _n') = SubSeq(_b, Min(_n, k) + 1, _n)]_vars

\* C20 happens: a write and a readinto have both moved some bytes, and
\* fewer than they were given
ShortWriteAndRead ==
    prod.part /\ cons.part

FinishBoundedByReadable ==
    [][/\ \A k \in 1..BufLen : FinishWriteOver(k) =>
             IF k <= Len(_b) - _n
             THEN prod'.err = "" /\ _n' = _n + k
             ELSE prod'.err # "" /\ _b' = _b /\ _n' = _n /\ _w' = _w
       /\ FinishWrite => (prod.k <= Len(_b) - _n /\ _n' = _n + prod.k)
       /\ \A k \in 1..BufLen : FinishReadOver(k) =>
             IF k <= _n
             THEN cons'.err = "" /\ _n' = _n - k
             ELSE cons'.err # "" /\ _b' = _b /\ _n' = _n /\ _w' = _w
       /\ FinishRead => (Len(cons.got) <= _n /\ _n' = _n - Len(cons.got))]_vars

\* C22, amended: the bound of finish_write is the length capacity - w of the
\* window that pend_write gave (0 without a pend_write), whatever was read
\* since; finish_write(k) commits k bytes up to it and finish_read(k) up to
\* n, and a larger k raises AssertionError with the buffer unchanged
FinishBoundedByWindow ==
    [][/\ \A k \in 1..BufLen : FinishWriteOver(k) =>
             IF k <= Len(_b) - _w
             THEN prod'.err = "" /\ _n' = _n + k
             ELSE prod'.err = "AssertionError" /\ _b' = _b /\ _n' = _n /\ _w' = _w
       /\ FinishWrite => (prod.k <= Len(_b) - _w /\ _n' = _n + prod.k)
       /\ \A k \in 1..BufLen : FinishReadOver(k) =>
             IF k <= _n
             THEN cons'.err = "" /\ _n' = _n - k
             ELSE cons'.err = "AssertionError" /\ _b' = _b /\ _n' = _n /\ _w' = _w
       /\ FinishRead => (Len(cons.got) <= _n /\ _n' = _n - Len(cons.got))]_vars

\* C22 happens: after a read the producer was refused a number of bytes
\* that capacity - n allows, and the consumer one above n
RefusedAfterRead ==
    /\ prod.err = "AssertionError" /\ _n < _w
    /\ cons.err = "AssertionError"

\* C23: while a function is closed (never opened, or reset since), each of
\* submit, xfer_pending, set_ep_stall and get_ep_stall fails with the
\* not-open error, leaves the transfer registry as it is and hands nothing
\* to the bus driver
ClosedFunctionRefuses ==
    [][(/\ last'.op \in {"submit", "xfer_pending", "set_ep_stall", "get_ep_stall"}
        /\ ~last'.pre.open) =>
           /\ last'.err \in {"Not open", "RuntimeError"}
           /\ last'.handed = 0
           /\ ep_cbs' = ep_cbs /\ inflight' = inflight]_vars

\* C24: a control-transfer stage whose request has an owning function (the
\* function at interface number wIndex for the device and interface
\* recipients, the function mapped to endpoint wIndex for the endpoint
\* recipient) invokes exactly one handler, that of the owner for the
\* recipient, once for this stage; a result of True is returned as True with
\* no data, False as False (STALL) with no data, and a buffer is handed to
\* the bus driver for the data stage; a handler that is not overridden
\* rejects the request at every stage.
HandlerOutcomeMapped ==
    last.op = "control" =>
        LET stage == last.arg[1]
            recipient == last.arg[2]
            wIndex == last.arg[3]
            k == wIndex - static.itf_max
            owner == IF recipient \in {REQ_RECIPIENT_DEVICE, REQ_RECIPIENT_INTERFACE}
                     THEN (IF k >= 0 /\ k < Len(itfs) THEN itfs[k + 1] ELSE 0)
                     ELSE IF recipient = REQ_RECIPIENT_ENDPOINT /\ wIndex \in DOMAIN eps
                     THEN eps[wIndex]
                     ELSE 0
            overridden == /\ ItfClass(owner) \in {"MouseInterface", "HIDInterface"}
                          /\ recipient = REQ_RECIPIENT_INTERFACE
        IN  owner # 0 =>
                /\ last.err = ""
                /\ last.out.handlers = <<<<owner, HandlerOf(recipient), stage>>>>
                /\ last.out.result = "True" => (last.out.ret /\ ~last.out.data)
                /\ last.out.result = "False" => (~last.out.ret /\ ~last.out.data)
                /\ last.out.result = "buf" => last.out.data
                /\ last.out.result \in {"True", "False", "buf"}
                /\ ~overridden => (last.out.result = "False" /\ ~last.out.ret)

\* the mouse function answered a SETUP stage with a buffer, which went to the
\* bus driver
BufferHandedToDriver ==
    /\ last.op = "control"
    /\ Len(last.out.handlers) = 1
    /\ last.out.result = "buf"
    /\ last.out.data

\* C25: after a build of the configuration descriptor the endpoint map holds
\* exactly the addresses the registered functions reported in that build,
\* each mapped to the function that reported it, and no function that is
\* not registered; a control request to the endpoint recipient whose wIndex
\* is an address of the map runs the endpoint handler of the function the
\* map gives for it.
EndpointMapOfLastBuild ==
    /\ last.op = "descriptor_config" =>
           LET A == last.out.assigned
           IN  /\ DOMAIN eps = {A[j][2] : j \in DOMAIN A}
               /\ \A j \in DOMAIN A : eps[A[j][2]] = A[j][1]
               /\ \A a \in DOMAIN eps : eps[a] \in Range(itfs)
               /\ \A i \in Range(itfs) :
                      {a \in DOMAIN eps : eps[a] = i}
                          = Range(get_endpoint_descriptors(i, itf_ep[i], 0).addrs)
    /\ (/\ last.op = "control"
        /\ last.arg[2] = REQ_RECIPIENT_ENDPOINT
        /\ last.arg[3] \in DOMAIN eps) =>
           /\ last.err = ""
           /\ last.out.handlers = <<<<eps[last.arg[3]], "endpoint", last.arg[1]>>>>

\* a function that had endpoints was removed, the descriptor was built again
\* for the function that stayed, and a request to one of its endpoints came
RoutedAfterRemoval ==
    /\ last.op = "control"
    /\ last.arg[2] = REQ_RECIPIENT_ENDPOINT
    /\ last.arg[3] \in DOMAIN eps
    /\ \E i \in ItfIds : i \notin Range(itfs) /\ itf_ep[i] # 0
    /\ \A a \in DOMAIN eps : eps[a] \in Range(itfs)

\* C26: when the wLength of a control request differs from the length of
\* the payload buffer its SETUP-stage handler expects or returns, the
\* transfer is stalled: the callback returns False and no buffer, truncated
\* or longer than declared, reaches the bus driver.
WrongLengthStalls ==
    (/\ last.op = "hid_control"
     /\ last.arg[1] = STAGE_SETUP
     /\ last.out.expect >= 0
     /\ last.out.expect # last.arg[3]) =>
        (~last.out.ret /\ last.out.data = -1)

\* C27: in a composed configuration descriptor the registered functions
\* have their interface descriptors in registration order, the i-th of them
\* (from 0) with interface number built-in count + i: contiguous and
\* increasing, after the built-in interfaces.
InterfaceNumbersContiguous ==
    (last.op = "descriptor_config" /\ last.err = "") =>
        LET D == ItfDescs(desc)
            base == IF include_static THEN static.itf_max ELSE 0
        IN  /\ Len(D) = base + Len(itfs)
            /\ \A i \in 0..(Len(itfs) - 1) :
                   /\ D[base + i + 1][1] = static.itf_max + i
                   /\ D[base + i + 1][2] = bInterfaceClass(itfs[i + 1])

\* a descriptor was composed for two functions behind a built-in interface
TwoFunctionsNumbered ==
    /\ last.op = "descriptor_config" /\ last.err = ""
    /\ static.itf_max > 0
    /\ Len(itfs) = MaxItfs
    /\ Len(ItfDescs(desc)) >= 2

\* C28: after a build of the configuration descriptor every non-zero
\* iInterface it wrote is an index for which the string-descriptor request
\* returns the interface string of that function, and a function with an
\* interface string has a non-zero iInterface; whatever functions are
\* registered and whatever device strings are set.
EmbeddedStringsResolve ==
    (last.op = "descriptor_config" /\ last.err = "") =>
        LET D == ItfDescs(desc)
            base == IF include_static THEN static.itf_max ELSE 0
        IN  \A i \in 1..Len(itfs) :
               LET idx == D[base + i][3]
                   r == _descriptor_string_cb(idx, static, strs, TRUE)
               IN  /\ (idx = 0) = (interface_str(itfs[i]) = None)
                   /\ idx # 0 => (r.err = "" /\ r.ret = interface_str(itfs[i]))

\* a build with a device string set and two functions that have a string
TwoInterfaceStrings ==
    /\ last.op = "descriptor_config" /\ last.err = ""
    /\ manufacturer_str # None
    /\ Cardinality({i \in 1..Len(itfs) : interface_str(itfs[i]) # None}) = 2

\* C29: a string-descriptor request for an index past the end of the table
\* of the most recent build - an index never handed out, or one the host
\* holds from an earlier, longer table - returns None, raises nothing and
\* changes nothing.
StringPastTableIsNone ==
    [][(/\ last'.op = "descriptor_string"
        /\ last'.arg[1] >= static.str_max + Len(strs)) =>
           /\ last'.err = ""
           /\ last'.out.ret = None
           /\ <<itfs, eps, ep_cbs, strs, desc, itf_ep, opened, inflight>>'
                  = <<itfs, eps, ep_cbs, strs, desc, itf_ep, opened, inflight>>]_vars

\* the host asked for an index of the table of the enumeration before the
\* last one, which the last build made shorter
StaleIndexAsked ==
    /\ last.op = "descriptor_string"
    /\ last.pre.stale
    /\ last.arg[1] >= static.str_max + Len(strs)

\* C30: a build of the configuration descriptor made while a configuration
\* string is set succeeds, and the iConfiguration field of its header is an
\* index for which the string-descriptor request then returns that string;
\* with no configuration string the field is the built-in value when the
\* built-in descriptor is included, 0 when it is not.
ConfigStringIndexed ==
    last.op = "descriptor_config" =>
        /\ last.err = ""
        /\ LET iConfiguration == desc[OFFS_CONFIG_iConfiguration + 1]
               r == _descriptor_string_cb(iConfiguration, static, strs, TRUE)
           IN  IF config_str # None
               THEN r.err = "" /\ r.ret = config_str
               ELSE iConfiguration = (IF include_static THEN static.iConfiguration
                                      ELSE 0)

\* C31: when the open callback has run on the claimed descriptors, the
\* registered functions whose interface number (position in the list plus
\* the number of built-in interfaces) is in an interface descriptor of the
\* view are open, and every other registered function is open or closed as
\* it was before.
OpenedAsClaimed ==
    last.op = "open" =>
        LET D == ItfDescs(ClaimedView(desc, static))
            nums == {D[j][1] : j \in DOMAIN D}
            claimed == {itfs[k] : k \in {k \in 1..Len(itfs) :
                                            static.itf_max + k - 1 \in nums}}
        IN  \A i \in Range(itfs) :
               opened[i] = (i \in claimed \/ i \in last.pre.opened)

\* C32: the device descriptor is built whatever is configured; its class,
\* subclass, protocol, vendor id and product id are the configured values
\* where one is configured, and every other byte - bcdDevice, the string
\* indexes, bMaxPacketSize0 and bNumConfigurations among them - is the byte
\* of the static descriptor.
DeviceDescriptorOverrides ==
    last.op = "descriptor_device" =>
        /\ last.err = ""
        /\ LET f == StaticDescDevice
               or(p, idx) == IF dev[p] # Unset THEN dev[p] ELSE f[idx]
           IN  last.out.desc =
                   PackDevice(<<f[1], f[2], f[3], or("device_class", 4),
                                or("device_subclass", 5), or("device_protocol", 6),
                                f[7], or("id_vendor", 8), or("id_product", 9),
                                f[10], f[11], f[12], f[13], f[14]>>)

\* C33: whenever a completion callback of the CDC data interface or a read
\* of the application has returned and the interface is open and its receive
\* buffer has room (writable() > 0), an OUT transfer is pending on the OUT
\* endpoint.
ReceptionKeptGoing ==
    (/\ last.op \in {"rx_open", "rx_xfer", "rx_read"}
     /\ opened[3]
     /\ writable(TheBuffer) > 0) =>
        (/\ itf_ep[3] \in DOMAIN ep_cbs
         /\ ep_cbs[itf_ep[3]] # None
         /\ Busy(inflight[itf_ep[3]]))

\* the registered functions whose interface descriptor carries number N in
\* configuration descriptor d (a function is known by its interface class)
BuiltAs(N, d) ==
    LET D == ItfDescs(d)
    IN  {i \in Range(itfs) : \E j \in DOMAIN D :
                                 D[j][1] = N /\ D[j][2] = bInterfaceClass(i)}

\* C34: an interface request for number N (N not a built-in interface)
\* reaches no function but the one whose interface descriptor carried number
\* N in the most recent build; an open event opens only functions whose
\* number in that build is in the view.
RoutedAsLastBuilt ==
    /\ (last.op = "control" /\ last.err = "" /\ last.arg[3] >= static.itf_max) =>
           \/ last.out.handlers = <<>>
           \/ /\ Len(last.out.handlers) = 1
              /\ last.out.handlers[1][1] \in BuiltAs(last.arg[3], desc)
    /\ (last.op = "open" /\ last.err = "") =>
           \A i \in Range(itfs) :
              (opened[i] /\ i \notin last.pre.opened) =>
                 \E N \in static.itf_max..(static.itf_max + MaxItfs) :
                    i \in BuiltAs(N, ClaimedView(desc, static))

\* C35: bytes leave the transmit buffer of the CDC data interface only when
\* an IN transfer completes with success, and then the reported number of
\* them from the head; a failed completion consumes nothing and, the
\* interface being open and the buffer not empty, submits a new IN transfer;
\* write(buf) returns c <= len(buf), the first c bytes of buf being what it
\* appended to the buffer, in order.
TransmitInOrder ==
    /\ consumed \o SubSeq(_b, 1, _n) = committed
    /\ (last.op = "tx_xfer" /\ last.out.called) =>
           /\ last.arg[1] = RESULT_SUCCESS =>
                  /\ consumed = last.pre.consumed \o SubSeq(last.pre.b, 1, last.arg[2])
                  /\ _n = last.pre.n - last.arg[2]
           /\ last.arg[1] # RESULT_SUCCESS =>
                  /\ consumed = last.pre.consumed
                  /\ _n = last.pre.n
                  /\ SubSeq(_b, 1, _n) = SubSeq(last.pre.b, 1, _n)
                  /\ (opened[3] /\ _n > 0) => last.handed = 1
    /\ (last.op = "tx_write" /\ last.err = "") =>
           /\ last.out.ret <= Len(last.arg[1])
           /\ SubSeq(committed, last.pre.base + 1, Len(committed))
                 = SubSeq(last.arg[1], 1, last.out.ret)

\* a transfer failed after some bytes, nothing was consumed and a new
\* transfer was submitted, bytes of an earlier transfer having left and a
\* write having come back short before
FailedTransferResubmitted ==
    /\ last.op = "tx_xfer" /\ last.out.called
    /\ last.arg[1] = RESULT_FAILED /\ last.arg[2] > 0
    /\ opened[3] /\ _n > 1 /\ last.handed = 1
    /\ consumed # <<>>
    /\ prod.pc = "idle" /\ Len(committed) < prod.base + Len(prod.buf)

\* C36: in every configuration descriptor a build returns, with the built-in
\* descriptor or without it, the interface descriptors carry the numbers
\* 0 .. bNumInterfaces - 1, each once.
InterfaceNumbersFromZero ==
    (last.op = "descriptor_config" /\ last.err = "") =>
        LET D == ItfDescs(desc)
        IN  /\ Len(D) = desc[5]
            /\ {D[j][1] : j \in DOMAIN D} = 0..(desc[5] - 1)

\* C37: SET_LINE_CODING with wLength other than the length of the line
\* coding is stalled at SETUP, the stored line coding stays as it is and the
\* line coding callback is not invoked, at that stage or later in the
\* transfer; SET_CONTROL_LINE_STATE with wLength other than 0 is stalled and
\* the line state stays as it is.
CdcWrongLengthStalled ==
    last.op = "cdc_control" =>
        /\ (/\ last.arg[1] = STAGE_SETUP /\ last.arg[2] = "SET_LINE_CODING"
            /\ last.arg[4] # Len(ctrl._line_coding)) =>
               /\ ~last.out.ret
               /\ host.due = 0
               /\ ctrl = last.pre.ctrl
               /\ last.out.cbs = <<>>
        /\ (/\ last.arg[1] = STAGE_SETUP /\ last.arg[2] = "SET_CONTROL_LINE_STATE"
            /\ last.arg[4] # 0) =>
               /\ ~last.out.ret
               /\ ctrl = last.pre.ctrl
               /\ last.out.cbs = <<>>
        /\ (\/ ctrl._line_coding # last.pre.ctrl._line_coding
            \/ \E j \in DOMAIN last.out.cbs : last.out.cbs[j][1] = "line_coding_cb") =>
               last.arg[4] = Len(ctrl._line_coding)

\* a SET_LINE_CODING one byte short was stalled after the host had set a
\* line coding and the line state
ShortLineCodingStalled ==
    /\ last.op = "cdc_control"
    /\ last.arg[1] = STAGE_SETUP /\ last.arg[2] = "SET_LINE_CODING"
    /\ last.arg[4] = Len(ctrl._line_coding) - 1
    /\ ~last.out.ret
    /\ ctrl._line_coding # CDCControlInit._line_coding
    /\ ctrl._line_state # 0

\* C39: the CDC is open only if there was an open event since the last bus
\* reset, and dtr is true only if the host has sent SET_CONTROL_LINE_STATE
\* with the DTR bit since the last bus reset.
OpenAndDtrSinceReset ==
    /\ opened[4] => host.opened
    /\ dtr(ctrl) => host.dtr

\* C38: in a configuration descriptor built with the CDC control and the CDC
\* data interface registered, the data interface named by the control
\* interface's descriptors (the second interface of the interface
\* association, bDataInterface of Call Management, bSubordinateInterface0 of
\* Union) is the number the data interface's own descriptor carries.
DataInterfaceReferenced ==
    (last.op = "descriptor_config" /\ last.err = "" /\ {3, 4} \subseteq Range(itfs)) =>
        LET D == ItfDescs(desc)
            cs == DescsOfType(desc, CS_DESC_TYPE)
            iad == DescsOfType(desc, ITF_ASSOCIATION_DESC_TYPE)
        IN  \A j \in DOMAIN D : D[j][2] = bInterfaceClass(3) =>
               /\ \A k \in DOMAIN iad : iad[k][3] + iad[k][4] - 1 = D[j][1]
               /\ \A k \in DOMAIN cs :
                      (cs[k][3] \in {1, 6} /\ Len(cs[k]) = 5) => cs[k][5] = D[j][1]

\* C3: with one producer and one consumer, the other running between any
\* two calls of each, the bytes passed to finish_read so far followed by the
\* bytes now readable are the bytes passed to finish_write so far, in order.
NoByteLostOrReordered == consumed \o SubSeq(_b, 1, _n) = committed

\* the consumer took bytes out between pend_write and finish_write, so that
\* finish_write moved the written bytes, and this while the consumer was
\* between pend_read and finish_read, with bytes of both kinds in the buffer
RelocatedAndRead ==
    /\ prod.pc = "idle" /\ prod.moved > 0
    /\ cons.pc = "copied"
    /\ consumed # <<>>
    /\ _n >= 2
    /\ _n > cons.len

\* C5 as stated: after any sequence of add_interface and remove_interface,
\* the descriptor the build returns has wTotalLength equal to its length and
\* bNumInterfaces equal to the built-in interface count plus the number of
\* registered functions.
HeaderCountsBuiltIn ==
    (last.op = "descriptor_config" /\ last.err = "") =>
        /\ Unpack16(desc, 2) = Len(desc)
        /\ desc[5] = static.itf_max + Len(itfs)

\* C5, amended: wTotalLength is the length of the returned descriptor, and
\* bNumInterfaces is the number of registered functions plus the built-in
\* interface count when the built-in descriptor is included (include_static),
\* plus nothing when it is not.
HeaderCountsIncluded ==
    (last.op = "descriptor_config" /\ last.err = "") =>
        /\ Unpack16(desc, 2) = Len(desc)
        /\ desc[5] = (IF include_static THEN static.itf_max ELSE 0) + Len(itfs)

\* a build with built-in interfaces present and two functions registered,
\* after a function that an earlier build had given endpoints was removed
BuiltAfterRemoval ==
    /\ last.op = "descriptor_config" /\ last.err = ""
    /\ static.itf_max > 0
    /\ Len(itfs) = 2
    /\ \E i \in ItfIds \ Range(itfs) : itf_ep[i] # 0
    /\ Len(desc) > STD_DESC_CONFIG_LEN + 2 * STD_DESC_INTERFACE_LEN

\* C6: a control request with recipient interface and wIndex N goes, at
\* every stage, to the interface handler of the function at index
\* N - itf_max and to no other handler; where no function has that index
\* the request is stalled.
InterfaceRequestRouted ==
    (last.op = "control" /\ last.arg[2] = REQ_RECIPIENT_INTERFACE) =>
        LET k == last.arg[3] - static.itf_max
        IN  IF k >= 0 /\ k < Len(itfs)
            THEN /\ last.err = ""
                 /\ last.out.handlers = <<<<itfs[k + 1], "interface", last.arg[1]>>>>
            ELSE /\ last.err = ""
                 /\ last.out.handlers = <<>>
                 /\ last.out.ret = FALSE /\ last.out.data = FALSE

\* C7: a control request that no function owns - whatever its recipient,
\* wIndex and stage - is stalled: _control_xfer_cb returns False, invokes no
\* handler, hands nothing to the bus driver and raises nothing.
UnownedRequestStalled ==
    last.op = "control" =>
        LET k == last.arg[3] - static.itf_max
            owned == CASE last.arg[2] \in {REQ_RECIPIENT_DEVICE, REQ_RECIPIENT_INTERFACE} ->
                            k >= 0 /\ k < Len(itfs)
                       [] last.arg[2] = REQ_RECIPIENT_ENDPOINT -> last.arg[3] \in DOMAIN eps
                       [] OTHER -> FALSE
        IN  ~owned => /\ last.err = ""
                      /\ last.out.handlers = <<>>
                      /\ last.out.ret = FALSE /\ last.out.data = FALSE

\* C8: when the bus reset callback returns, no endpoint has a pending mark
\* and every registered function is closed.
ResetClearsAll ==
    last.op = "reset" =>
        /\ \A a \in DOMAIN ep_cbs : ep_cbs[a] = None
        /\ \A i \in Range(itfs) : ~opened[i]

\* a reset arrived while a transfer was pending and functions were open
ResetWhilePending ==
    last.op = "reset" /\ last.pre.marks # {} /\ Cardinality(last.pre.opened) = 2

\* C9: from a successful submit on an endpoint until the completion of that
\* transfer is reported or the bus is reset, the endpoint is pending
\* (xfer_pending is true), whatever else happens meanwhile.
PendingUntilCompletion ==
    \A a \in EpAddrs : Busy(inflight[a]) => (a \in DOMAIN ep_cbs /\ ep_cbs[a] # None)

\* C10: when the completion of a transfer is reported, the callback runs
\* with the mark already cleared: the transfer a CDC callback submits on
\* its endpoint (the function open, the buffer having bytes or room) is
\* handed to the bus driver, not refused as pending, and once it is accepted
\* the endpoint is pending with the new callback when _xfer_cb returns.
ResubmitFromCallback ==
    (/\ last.op = "xfer"
     /\ last.pre.mark \in {"_rd_cb", "_wr_cb"}
     /\ last.out.more
     /\ opened[3]) =>
        /\ last.handed = 1
        /\ last.err # "xfer_pending"
        /\ last.err = "" => (ep_cbs[last.arg[1]] = last.pre.mark
                             /\ inflight[last.arg[1]] = <<last.pre.mark>>)

\* a callback has submitted the next transfer and the bus driver took it
ResubmittedFromCallback ==
    /\ last.op = "xfer"
    /\ last.pre.mark \in {"_rd_cb", "_wr_cb"}
    /\ last.out.more
    /\ opened[3]
    /\ last.handed = 1
    /\ last.err = ""
    /\ ep_cbs[last.arg[1]] = last.pre.mark

(* The transfer registry in operation: the CDC data interface is           *)
(* registered, enumerated and opened; its driver submits, the bus driver   *)
(* completes, resets, re-reads the configuration descriptor and delivers   *)
(* control transfers.                                                      *)
Next ==
    \/ \E i \in {1, 3} : i \notin Range(itfs) /\ AddInterface(i)
    \/ DescriptorConfigCb
    \/ \E accept, room, data \in BOOLEAN : OpenCb(accept, room, data)
    \/ \E drop \in BOOLEAN : ResetCb(drop)
    \/ \E e \in {itf_ep[3], itf_ep[3] + EP_IN_FLAG}, cb \in {None, "done_cb"},
          accept, sync \in BOOLEAN :
          SubmitXfer(3, e, cb, accept, sync)
    \/ \E accept, sync \in BOOLEAN : CDCWrite(accept, sync)
    \/ \E e \in EpAddrs, c \in Completions, accept, more \in BOOLEAN :
          XferCb(e, c, accept, more)
    \/ \E stage \in Stages :
          ControlXferCb(stage, REQ_RECIPIENT_INTERFACE, static.itf_max, TRUE, TRUE, TRUE)

Spec == Init /\ [][Next]_vars

(* The operations a driver calls on its interface object, open or closed. *)
NextItf ==
    \/ AddInterface(3) /\ 3 \notin Range(itfs)
    \/ DescriptorConfigCb
    \/ \E accept, room, data \in BOOLEAN : OpenCb(accept, room, data)
    \/ \E drop \in BOOLEAN : ResetCb(drop)
    \/ \E e \in {itf_ep[3], itf_ep[3] + EP_IN_FLAG}, cb \in {None, "done_cb"},
          accept \in BOOLEAN :
          SubmitXfer(3, e, cb, accept, FALSE)
    \/ \E e \in {itf_ep[3], itf_ep[3] + EP_IN_FLAG} : XferPending(3, e)
    \/ \E e \in {itf_ep[3], itf_ep[3] + EP_IN_FLAG}, stall \in BOOLEAN :
          SetEpStall(3, e, stall)
    \/ \E e \in {itf_ep[3], itf_ep[3] + EP_IN_FLAG}, answer \in BOOLEAN :
          GetEpStall(3, e, answer)

SpecItf == Init /\ [][NextItf]_vars

(* Composition: the application registers and removes interfaces and sets  *)
(* device properties; the bus driver reads the configuration descriptor.   *)
NextCfg ==
    \/ \E i \in 1..4 : i \notin Range(itfs) /\ AddInterface(i)
    \/ \E i \in 1..4 : RemoveInterface(i)
    \/ \E v \in BOOLEAN : SetIncludeStatic(v)
    \/ DescriptorConfigCb

SpecCfg == Init /\ [][NextCfg]_vars

(* Control transfers: interfaces are registered and removed, the bus       *)
(* driver reads the configuration descriptor and delivers control          *)
(* transfers of every recipient, index and stage.                          *)
NextCtl ==
    \/ \E i \in {2, 3} : i \notin Range(itfs) /\ AddInterface(i)
    \/ \E i \in {2, 3} : RemoveInterface(i)
    \/ DescriptorConfigCb
    \/ \E stage \in Stages, recipient \in Recipients, wIndex \in WIndexes :
          \* an input is varied where the code reads it: the assertion at an
          \* index below the built-in interfaces, the handler's buffer at the
          \* SETUP stage of an interface request, the driver's answer to a buffer
          \E asserts \in (IF wIndex < static.itf_max THEN BOOLEAN ELSE {TRUE}),
             hbuf \in (IF stage = STAGE_SETUP /\ recipient = REQ_RECIPIENT_INTERFACE
                       THEN BOOLEAN ELSE {FALSE}) :
             \E drv \in (IF hbuf THEN BOOLEAN ELSE {FALSE}) :
                ControlXferCb(stage, recipient, wIndex, asserts, hbuf, drv)

SpecCtl == Init /\ [][NextCtl]_vars

(* HID control requests: HID functions are registered and removed, the bus  *)
(* driver reads the configuration descriptor and delivers the stages of     *)
(* interface requests to them, with every declared length around the        *)
(* lengths of the payloads.                                                 *)
WLengths == 0..(SetReportLen + 1)

NextHid ==
    \/ \E i \in {2, 5} : i \notin Range(itfs) /\ AddInterface(i)
    \/ \E i \in {2, 5} : RemoveInterface(i)
    \/ DescriptorConfigCb
    \/ \E stage \in Stages, wLength \in WLengths :
          \* after the SETUP stage the handler tells SET_REPORT from the rest
          \E req \in (IF stage = STAGE_SETUP THEN HidRequests
                      ELSE {"SET_REPORT", "other"}),
             wIndex \in static.itf_max..(static.itf_max + Len(itfs) - 1),
             drv \in (IF stage = STAGE_SETUP THEN BOOLEAN ELSE {FALSE}) :
             HidControlXferCb(stage, req, wIndex, wLength, drv)

SpecHid == Init /\ [][NextHid]_vars

(* Strings: functions with and without an interface string are            *)
(* registered, the application sets and clears the manufacturer and the     *)
(* configuration string and include_static, and the bus driver reads the    *)
(* configuration descriptor and string descriptors.                         *)
NextStr ==
    \/ \E i \in {2, 3, 5} : i \notin Range(itfs) /\ AddInterface(i)
    \/ \E v \in {None, "MicroPython"} : SetManufacturerStr(v)
    \/ \E v \in {None, "Config"} : SetConfigStr(v)
    \/ \E v \in BOOLEAN : SetIncludeStatic(v)
    \/ DescriptorConfigCb
    \/ \E index \in StrIndexes :
          \E asserts \in (IF index < static.str_max THEN BOOLEAN ELSE {TRUE}) :
             DescriptorStringCb(index, asserts)

SpecStr == Init /\ [][NextStr]_vars

(* Life cycle: functions are registered and removed, the bus driver reads  *)
(* the configuration descriptor, reports Set Configuration and bus resets   *)
(* and delivers the SETUP stage of interface requests.                      *)
NextLife ==
    \/ \E i \in {1, 2, 3} : i \notin Range(itfs) /\ AddInterface(i)
    \/ \E i \in {1, 2, 3} : RemoveInterface(i)
    \/ DescriptorConfigCb
    \/ \E accept \in BOOLEAN : OpenCb(accept, TRUE, FALSE)
    \/ ResetCb(TRUE)
    \/ \E wIndex \in 0..(MaxStatic + MaxItfs) :
          \E asserts \in (IF wIndex < static.itf_max THEN BOOLEAN ELSE {TRUE}) :
             ControlXferCb(STAGE_SETUP, REQ_RECIPIENT_INTERFACE, wIndex, asserts,
                           TRUE, TRUE)

SpecLife == Init /\ [][NextLife]_vars

(* Device descriptor: the application sets and clears device properties   *)
(* and the manufacturer string, the bus driver reads the device descriptor. *)
PropertyValues == {Unset, 0, 9}

NextDev ==
    \/ \E p \in DeviceProperties, v \in PropertyValues : SetDeviceProperty(p, v)
    \/ \E v \in {None, "MicroPython"} : SetManufacturerStr(v)
    \/ DescriptorDeviceCb

SpecDev == Init /\ [][NextDev]_vars

(* CDC receive path: the data interface is registered, enumerated and     *)
(* opened; OUT transfers complete with any length up to the window, with    *)
(* success or failure; the application reads; the bus is reset.             *)
NextRx ==
    \/ AddInterface(3) /\ itfs = <<>>
    \/ DescriptorConfigCb /\ desc = <<>>
    \/ RxOpenCb
    \/ ResetCb(TRUE)
    \/ \E k \in 0..BufLen : RxXferCb(<<RESULT_SUCCESS, k>>)
    \/ RxXferCb(<<RESULT_FAILED, 0>>)
    \/ \E len \in 1..BufLen : RxRead(len)

SpecRx == Init /\ [][NextRx]_vars

(* CDC transmit path: the data interface is registered, enumerated and    *)
(* opened; the application writes; IN transfers complete with any length    *)
(* up to that of their view, with success or failure; the bus is reset.     *)
NextTx ==
    \/ AddInterface(3) /\ itfs = <<>>
    \/ DescriptorConfigCb /\ desc = <<>>
    \/ TxOpenCb
    \/ ResetCb(TRUE)
    \/ \E n \in 1..(BufLen + 1) :
          /\ prod.pc = "idle" => Len(committed) + n <= MaxBytes
          /\ prod.pc = "loop" => n = Len(prod.buf)
          /\ TxWritePend(IF prod.pc = "loop" THEN prod.buf ELSE TxBytes(n))
    \/ \E timeout \in BOOLEAN :
          \E accept \in (IF opened[3] THEN BOOLEAN ELSE {TRUE}) :
             TxWriteFinish(timeout, accept)
    \/ \E res \in {RESULT_SUCCESS, RESULT_FAILED} : \E k \in 0..BufLen :
          \E accept \in BOOLEAN : TxXferCb(<<res, k>>, accept)

SpecTx == Init /\ [][NextTx]_vars

(* CDC control: CDC() registers the control and the data interface; the   *)
(* bus driver reads the configuration descriptor, reports Set               *)
(* Configuration and bus resets and delivers the stages of class requests   *)
(* to the control interface, with declared lengths around those the         *)
(* requests have.                                                           *)
LineCodings == {CDCControlInit._line_coding, <<128, 37, 0, 0, 0, 0, 8>>}

CdcLengths == {0} \cup ((Len(CDCControlInit._line_coding) - 1)
                          ..(Len(CDCControlInit._line_coding) + 1))

NextCdc ==
    \/ AddInterface(4) /\ itfs = <<>>
    \/ AddInterface(3) /\ itfs = <<4>>
    \/ DescriptorConfigCb
    \/ CdcOpenCb
    \/ CdcResetCb
    \/ \E stage \in Stages, req \in CdcRequests, wLength \in CdcLengths :
          \E wValue \in (IF req = "SET_CONTROL_LINE_STATE" /\ stage = STAGE_SETUP
                          THEN 0..(LINE_STATE_DTR + LINE_STATE_RTS) ELSE {0}),
             drv \in (IF stage = STAGE_SETUP /\ req # "other" THEN BOOLEAN ELSE {TRUE}),
             payload \in (IF stage = STAGE_DATA /\ req = "SET_LINE_CODING"
                           THEN LineCodings ELSE {<<>>}) :
             CdcControlXferCb(stage, req, wValue, wLength, drv, payload)

SpecCdc == Init /\ [][NextCdc]_vars

(* The test program of the buffer. *)
NextTest ==
    \/ \E p \in Programs : StartTest(p)
    \/ TestStep

SpecTest == Init /\ [][NextTest]_vars

(* The buffer between one producer and one consumer. *)
NextBuf ==
    \/ PendWrite
    \/ \E k \in 0..BufLen : FillWrite(k)
    \/ FinishWrite
    \/ PendRead
    \/ \E k \in 0..BufLen : CopyRead(k)
    \/ FinishRead
    \/ \E k \in 1..BufLen : FinishWriteOver(k)
    \/ \E k \in 1..BufLen : FinishReadOver(k)
    \/ \E k \in 0..BufLen : Write(k)
    \/ \E k \in 0..BufLen : ReadInto(k)

SpecBuf == Init /\ [][NextBuf]_vars

====
